---- MODULE Spec2Model ----
(***************************************************************************)
(* A model of the ic-trendy request handlers: the three retry loops around *)
(* the remote LLM call, the heuristic title scorer used as the fallback,   *)
(* and the HTTP handlers that validate a JSON body, check the credential,  *)
(* call the remote service and shape one JSON response.                    *)
(* The India trending card of the client component, which posts to the     *)
(* trending-india handler, is modelled with its React state.               *)
(*                                                                         *)
(* Text is modelled as a sequence of one-character strings wherever the    *)
(* code looks inside it (titles); an error message is a sequence of words, *)
(* and String.includes is the search for a contiguous subsequence.         *)
(***************************************************************************)
EXTENDS Integers, Sequences, FiniteSets, TLC

VARIABLES
    env,         \* process.env: which API keys are configured
    pc,          \* where the request (or the direct helper call) stands
    handler,     \* the endpoint serving the request, or "direct"
    body,        \* the request body as request.json() sees it
    currentYear, \* new Date().getFullYear().toString()
    loop,        \* the retry loop that is running
    maxRetries,  \* the loop's maxRetries / retries argument
    script,      \* what the remote operation does on its successive invocations
    attempt,     \* the loop's attempt counter
    calls,       \* outbound invocations made for this request
    waits,       \* the delays (ms) taken so far, in order
    ret,         \* how the loop ended: a returned value or a thrown error
    upstream,    \* what the YouTube API answered to the handler's fetch
    tasks,       \* keyword research: the state of each per-variation analysis
    resp,        \* the HTTP response, once sent
    mounted,                 \* the component's useEffect has run
    loadingIndiaTrending,    \* useState(false)
    selectedIndiaCategory,   \* useState("all")
    indiaTrendingSearches,   \* useState([])
    indiaTrendingHashtags,   \* useState([])
    fetches,     \* the calls of loadIndiaTrendingSearches that have not ended
    shownFor,    \* the category the lists in the state were fetched for
    toast        \* the description of the last toast

serverVars == <<env, pc, handler, body, currentYear, loop, maxRetries, script,
                attempt, calls, waits, ret, upstream, tasks, resp>>
clientVars == <<mounted, loadingIndiaTrending, selectedIndiaCategory, indiaTrendingSearches,
                indiaTrendingHashtags, fetches, shownFor, toast>>
vars == <<serverVars, clientVars>>

\* the component before its first effect
NotMounted ==
    /\ mounted = FALSE
    /\ loadingIndiaTrending = FALSE
    /\ selectedIndiaCategory = "all"
    /\ indiaTrendingSearches = <<>>
    /\ indiaTrendingHashtags = <<>>
    /\ fetches = <<>>
    /\ shownFor = "none"
    /\ toast = <<>>

(***************************************************************************)
(* Bounds of the model.                                                    *)
(***************************************************************************)
MaxRetriesBound == 4

(***************************************************************************)
(* Text.                                                                   *)
(***************************************************************************)
\* String.prototype.includes on sequences (characters or words)
Includes(s, sub) ==
    \E i \in 0..(Len(s) - Len(sub)) : SubSeq(s, i + 1, i + Len(sub)) = sub

Pow2(n) == IF n <= 0 THEN 1 ELSE 2 ^ n

(***************************************************************************)
(* JavaScript values as far as the handlers tell them apart.               *)
(***************************************************************************)
Undefined == [type |-> "undefined"]
Null == [type |-> "null"]
Str(s) == [type |-> "string", str |-> s]
Num(n) == [type |-> "number", num |-> n]

\* !v is FALSE
Truthy(v) ==
    CASE v.type = "undefined" -> FALSE
      [] v.type = "null" -> FALSE
      [] v.type = "string" -> v.str # <<>>
      [] v.type = "number" -> v.num # 0
      [] OTHER -> TRUE

(***************************************************************************)
(* Errors and the remote operation's outcomes.  status 0 stands for a      *)
(* thrown value without a status property (a network failure, a TypeError);*)
(* isError is `instanceof Error`: a thrown value that is no Error has no   *)
(* message property either.                                                *)
(***************************************************************************)
Err(status, msg) == [status |-> status, isError |-> TRUE, message |-> msg]
TypeError == Err(0, <<"Cannot", "read", "properties", "of", "undefined">>)

\* error.message.includes(words), where error.message is a string
MessageIncludes(e, words) == e.isError /\ Includes(e.message, words)

Success == [ok |-> TRUE, status |-> 200, isError |-> FALSE, message |-> <<>>]
Failure(status, msg) ==
    [ok |-> FALSE, status |-> status, isError |-> TRUE, message |-> msg]

RateLimited == Failure(429, <<"Rate", "limit", "reached", "for", "requests">>)
QuotaAs429 ==
    Failure(429, <<"You", "exceeded", "your", "current", "quota", ",", "please",
                   "check", "your", "plan", "and", "billing", "details">>)
PaymentRequired == Failure(402, <<"Payment", "Required">>)
QuotaExceeded == Failure(403, <<"Monthly", "quota", "exceeded">>)
BillingInactive ==
    Failure(403, <<"Your", "account", "is", "not", "active", ",", "check",
                   "your", "billing", "details">>)
ServerError == Failure(500, <<"The", "server", "had", "an", "error">>)
NetworkError == Failure(0, <<"fetch", "failed">>)
NonErrorThrown == [ok |-> FALSE, status |-> 0, isError |-> FALSE, message |-> <<>>]

\* what the remote operation can do on one invocation
Outcomes ==
    {Success, RateLimited, QuotaAs429, PaymentRequired, QuotaExceeded,
     BillingInactive, ServerError, NetworkError, NonErrorThrown}

\* the outcomes a direct call of a retry helper is exercised with
DirectOutcomes == {Success, RateLimited, PaymentRequired, ServerError, NetworkError}

\* the error an SDK call rejects with, for a failed outcome
ErrorOf(o) == [status |-> o.status, isError |-> o.isError, message |-> o.message]

NoError == [status |-> 0, isError |-> FALSE, message |-> <<>>]
NoValue == [type |-> "undefined"]
NoRet == [kind |-> "none", value |-> NoValue, error |-> NoError]
Returned(v) == [kind |-> "value", value |-> v, error |-> NoError]
Thrown(e) == [kind |-> "throw", value |-> NoValue, error |-> e]

(***************************************************************************)
(* Characters.                                                             *)
(***************************************************************************)
UpperLetters == <<"A", "B", "C", "D", "E", "F", "G", "H", "I", "J", "K", "L", "M", "N", "O", "P", "Q", "R", "S", "T", "U", "V", "W", "X", "Y", "Z">>
LowerLetters == <<"a", "b", "c", "d", "e", "f", "g", "h", "i", "j", "k", "l", "m", "n", "o", "p", "q", "r", "s", "t", "u", "v", "w", "x", "y", "z">>
Digits == {"0", "1", "2", "3", "4", "5", "6", "7", "8", "9"}
IsUpper(c) == \E i \in 1..Len(UpperLetters) : UpperLetters[i] = c

LowerChar(c) ==
    IF IsUpper(c)
    THEN LowerLetters[CHOOSE i \in 1..Len(UpperLetters) : UpperLetters[i] = c]
    ELSE c

\* String.prototype.toLowerCase
ToLowerCase(s) == [i \in 1..Len(s) |-> LowerChar(s[i])]

\* the number of entries of list that text includes (a forEach that adds per match)
CountIncluded(list, text) ==
    Cardinality({i \in 1..Len(list) : Includes(text, list[i])})

\* the number of characters of s that lie in set
CountChars(s, set) == Cardinality({i \in 1..Len(s) : s[i] \in set})

Min(a, b) == IF a <= b THEN a ELSE b
Max(a, b) == IF a >= b THEN a ELSE b

\* Array.prototype.slice(0, n)
Take(s, n) == SubSeq(s, 1, Min(n, Len(s)))

\* Number.parseInt of a string of digits; NaN, shown as -1, when the string
\* does not start with a digit
NaN == -1
DigitValue(c) == CHOOSE n \in 0..9 : ToString(n) = c
RECURSIVE DigitsValue(_, _)
DigitsValue(s, acc) ==
    IF s = <<>> \/ s[1] \notin Digits THEN acc
    ELSE DigitsValue(Tail(s), 10 * acc + DigitValue(s[1]))
ParseInt(s) == IF s = <<>> \/ s[1] \notin Digits THEN NaN ELSE DigitsValue(s, 0)

RECURSIVE Join(_, _)
\* Array.prototype.join(sep)
Join(parts, sep) ==
    IF parts = <<>> THEN <<>>
    ELSE IF Len(parts) = 1 THEN parts[1]
    ELSE parts[1] \o sep \o Join(Tail(parts), sep)

\* \w of a regular expression
IsWordChar(c) ==
    \/ IsUpper(c)
    \/ \E i \in 1..Len(LowerLetters) : LowerLetters[i] = c
    \/ c \in Digits
    \/ c = "_"

\* String.prototype.replace(/[^\w\s]/g, "")
StripPunctuation(s) == SelectSeq(s, LAMBDA c : IsWordChar(c) \/ c = " ")


(***************************************************************************)
(* The heuristic title scorer (score-title).                               *)
(***************************************************************************)
keywords ==
    <<<<"h", "o", "w", " ", "t", "o">>,
      <<"b", "e", "s", "t">>,
      <<"t", "o", "p">>,
      <<"g", "u", "i", "d", "e">>,
      <<"t", "u", "t", "o", "r", "i", "a", "l">>,
      <<"r", "e", "v", "i", "e", "w">>,
      <<"v", "s">>,
      <<"t", "i", "p", "s">>,
      <<"t", "r", "i", "c", "k", "s">>,
      <<"s", "e", "c", "r", "e", "t", "s">>>>
trendingWords ==
    <<<<"2", "0", "2", "4">>,
      <<"2", "0", "2", "5">>,
      <<"n", "e", "w">>,
      <<"l", "a", "t", "e", "s", "t">>,
      <<"u", "p", "d", "a", "t", "e">>,
      <<"v", "i", "r", "a", "l">>,
      <<"t", "r", "e", "n", "d", "i", "n", "g">>>>
powerWords ==
    <<<<"a", "m", "a", "z", "i", "n", "g">>,
      <<"i", "n", "c", "r", "e", "d", "i", "b", "l", "e">>,
      <<"s", "h", "o", "c", "k", "i", "n", "g">>,
      <<"u", "n", "b", "e", "l", "i", "e", "v", "a", "b", "l", "e">>,
      <<"s", "e", "c", "r", "e", "t">>,
      <<"h", "i", "d", "d", "e", "n">>,
      <<"u", "l", "t", "i", "m", "a", "t", "e">>,
      <<"p", "e", "r", "f", "e", "c", "t">>>>
trendingFormats ==
    <<<<"v", "s">>,
      <<"r", "e", "a", "c", "t", "i", "o", "n">>,
      <<"r", "e", "v", "i", "e", "w">>,
      <<"u", "n", "b", "o", "x", "i", "n", "g">>,
      <<"f", "i", "r", "s", "t", " ", "t", "i", "m", "e">>,
      <<"t", "r", "y", "i", "n", "g">>,
      <<"c", "h", "a", "l", "l", "e", "n", "g", "e">>>>

\* mutant: the upper ends of the bands are exclusive
calculateLengthScore_ExclusiveBands(title) ==
    LET length == Len(title) IN
    IF length >= 50 /\ length < 60 THEN 100
    ELSE IF length >= 40 /\ length < 70 THEN 80
    ELSE IF length >= 30 /\ length < 80 THEN 60
    ELSE 40

calculateLengthScore(title) ==
    LET length == Len(title) IN
    IF length >= 50 /\ length <= 60 THEN 100
    ELSE IF length >= 40 /\ length <= 70 THEN 80
    ELSE IF length >= 30 /\ length <= 80 THEN 60
    ELSE 40

\* mutant: the words are looked for in the title as typed
calculateKeywordScore_CaseSensitive(title) ==
    LET score == 50 + 10 * CountIncluded(keywords, title)
                    + 5 * CountIncluded(trendingWords, title)
    IN Min(score, 100)

calculateKeywordScore(title) ==
    LET lowerTitle == ToLowerCase(title)
        score == 50 + 10 * CountIncluded(keywords, lowerTitle)
                    + 5 * CountIncluded(trendingWords, lowerTitle)
    IN Min(score, 100)

\* mutant: the power words are looked for in the title as typed
calculateEngagementScore_CaseSensitive(title) ==
    LET numbers == \E i \in 1..Len(title) : title[i] \in Digits
        questions == Includes(title, <<"?">>)
        exclamation == Includes(title, <<"!">>)
        caps == \E i \in 1..(Len(title) - 1) : IsUpper(title[i]) /\ IsUpper(title[i + 1])
        score == 40 + 8 * CountIncluded(powerWords, title)
                    + (IF numbers THEN 15 ELSE 0)
                    + (IF questions THEN 10 ELSE 0)
                    + (IF exclamation THEN 5 ELSE 0)
                    + (IF caps THEN 10 ELSE 0)
    IN Min(score, 100)

calculateEngagementScore(title) ==
    LET numbers == \E i \in 1..Len(title) : title[i] \in Digits
        questions == Includes(title, <<"?">>)
        exclamation == Includes(title, <<"!">>)
        caps == \E i \in 1..(Len(title) - 1) : IsUpper(title[i]) /\ IsUpper(title[i + 1])
        lowerTitle == ToLowerCase(title)
        score == 40 + 8 * CountIncluded(powerWords, lowerTitle)
                    + (IF numbers THEN 15 ELSE 0)
                    + (IF questions THEN 10 ELSE 0)
                    + (IF exclamation THEN 5 ELSE 0)
                    + (IF caps THEN 10 ELSE 0)
    IN Min(score, 100)

\* capsRatio > 0.3 is 10 * capitals > 3 * length; for the empty title the
\* ratio is NaN and the comparison is false
calculateClarityScore(title) ==
    LET punctuationCount == CountChars(title, {"!", "?", ".", ",", ";", ":"})
        capitals == Cardinality({i \in 1..Len(title) : IsUpper(title[i])})
        score == 70 - (IF punctuationCount > 3 THEN 20 ELSE 0)
                    + (IF Includes(title, <<":">>) \/ Includes(title, <<"-">>) THEN 10 ELSE 0)
                    - (IF 10 * capitals > 3 * Len(title) THEN 15 ELSE 0)
    IN Max(score, 20)

calculateTrendingScore(title, year) ==
    LET lowerTitle == ToLowerCase(title)
        score == 50 + 10 * CountIncluded(trendingFormats, lowerTitle)
                    + (IF Includes(title, year) THEN 15 ELSE 0)
    IN Min(score, 100)

\* mutant: Math.floor instead of Math.round
RoundDiv_Floors(n, d) == n \div d

\* Math.round of n / d for n >= 0, d > 0: halves round up
RoundDiv(n, d) == (2 * n + d) \div (2 * d)

\* mutant: the list is not cut to four
generateImprovements_NoCap(title, breakdown) ==
    LET improvements ==
            (IF breakdown.length < 70 /\ Len(title) < 40
             THEN <<"Consider making your title longer (40-60 characters is optimal)">>
             ELSE <<>>)
         \o (IF breakdown.length < 70 /\ Len(title) > 70
             THEN <<"Try shortening your title for better visibility">>
             ELSE <<>>)
         \o (IF breakdown.keywords < 70
             THEN <<"Add relevant keywords like 'how to', 'best', or 'guide' to improve searchability">>
             ELSE <<>>)
         \o (IF breakdown.engagement < 70
             THEN <<"Include numbers or power words to make your title more engaging">>
             ELSE <<>>)
         \o (IF breakdown.clarity < 70
             THEN <<"Make your title clearer and more specific about the video content">>
             ELSE <<>>)
         \o (IF breakdown.trending < 70
             THEN <<"Consider adding current year or trending formats to boost discoverability">>
             ELSE <<>>)
    IN improvements

generateImprovements(title, breakdown) ==
    LET improvements ==
            (IF breakdown.length < 70 /\ Len(title) < 40
             THEN <<"Consider making your title longer (40-60 characters is optimal)">>
             ELSE <<>>)
         \o (IF breakdown.length < 70 /\ Len(title) > 70
             THEN <<"Try shortening your title for better visibility">>
             ELSE <<>>)
         \o (IF breakdown.keywords < 70
             THEN <<"Add relevant keywords like 'how to', 'best', or 'guide' to improve searchability">>
             ELSE <<>>)
         \o (IF breakdown.engagement < 70
             THEN <<"Include numbers or power words to make your title more engaging">>
             ELSE <<>>)
         \o (IF breakdown.clarity < 70
             THEN <<"Make your title clearer and more specific about the video content">>
             ELSE <<>>)
         \o (IF breakdown.trending < 70
             THEN <<"Consider adding current year or trending formats to boost discoverability">>
             ELSE <<>>)
    IN Take(improvements, 4)

generateStrengths(title, breakdown) ==
    LET strengths ==
            (IF breakdown.length >= 80
             THEN <<"Great title length for optimal visibility">> ELSE <<>>)
         \o (IF breakdown.keywords >= 80
             THEN <<"Good use of searchable keywords">> ELSE <<>>)
         \o (IF breakdown.engagement >= 80
             THEN <<"Engaging and attention-grabbing">> ELSE <<>>)
         \o (IF breakdown.clarity >= 80
             THEN <<"Clear and easy to understand">> ELSE <<>>)
         \o (IF breakdown.trending >= 80
             THEN <<"Uses trending formats effectively">> ELSE <<>>)
    IN Take(strengths, 3)

calculateFallbackScore(title, year) ==
    LET breakdown ==
            [length |-> calculateLengthScore(title),
             keywords |-> calculateKeywordScore(title),
             engagement |-> calculateEngagementScore(title),
             clarity |-> calculateClarityScore(title),
             trending |-> calculateTrendingScore(title, year)]
        overall ==
            RoundDiv(breakdown.length + breakdown.keywords + breakdown.engagement
                     + breakdown.clarity + breakdown.trending, 5)
    IN [overall |-> overall,
        breakdown |-> breakdown,
        improvements |-> generateImprovements(title, breakdown),
        strengths |-> generateStrengths(title, breakdown)]

(***************************************************************************)
(* The titles and keywords requests are made with.                         *)
(***************************************************************************)
TitleBGMI == <<"B", "G", "M", "I", " ", "B", "e", "s", "t", " ", "T", "i", "p", "s", " ", "a", "n", "d", " ", "T", "r", "i", "c", "k", "s", " ", "2", "0", "2", "4">>
TitleShort == <<"m", "y", " ", "v", "l", "o", "g">>
Titles == {TitleBGMI, TitleShort}
Years == {<<"2", "0", "2", "4">>, <<"2", "0", "2", "6">>}

(***************************************************************************)
(* Math.random(): a draw k of 0..RandomSteps-1 stands for k / RandomSteps. *)
(***************************************************************************)
RandomSteps == 3
RandomDraws == 0..(RandomSteps - 1)
\* Math.floor(Math.random() * n)
RandomIndex(k, n) == (k * n) \div RandomSteps

(***************************************************************************)
(* rewrite-titles: the template rewrites and the parsing of the reply.     *)
(* A produced title is a sequence of text pieces: the literal parts of the *)
(* template as they stand, the title character by character.               *)
(***************************************************************************)
rewritePowerWords ==
    <<"Amazing", "Shocking", "Incredible", "Unbelievable", "Secret", "Hidden",
      "Ultimate", "Best", "Worst", "Epic">>
emotions ==
    <<"U+1F631", "U+1F525", "U+1F4AF", "U+26A1", "U+1F680", "U+1F4A5",
      "U+1F3AF", "U+2728">>

generateFallbackRewrites(title, r1, r2) ==
    LET patterns ==
            <<<<rewritePowerWords[RandomIndex(r1, Len(rewritePowerWords)) + 1], " ">> \o title,
              title \o <<" ", emotions[RandomIndex(r2, Len(emotions)) + 1]>>,
              <<"You Won't Believe: ">> \o title,
              title \o <<" - Must Watch!">>,
              <<"The Truth About ">> \o title>>
    IN Take(patterns, 5)

RECURSIVE SplitOn(_, _)
\* String.prototype.split(sep) for a one-character separator
SplitOn(s, sep) ==
    IF \A i \in 1..Len(s) : s[i] # sep
    THEN <<s>>
    ELSE LET k == CHOOSE i \in 1..Len(s) :
                      s[i] = sep /\ \A j \in 1..(i - 1) : s[j] # sep
         IN <<SubSeq(s, 1, k - 1)>> \o SplitOn(SubSeq(s, k + 1, Len(s)), sep)

\* String.prototype.trim, for the blank characters the replies hold
Trim(s) ==
    IF \A i \in 1..Len(s) : s[i] = " "
    THEN <<>>
    ELSE LET first == CHOOSE i \in 1..Len(s) : s[i] # " " /\ \A j \in 1..(i - 1) : s[j] = " "
             last == CHOOSE i \in 1..Len(s) : s[i] # " " /\ \A j \in (i + 1)..Len(s) : s[j] = " "
         IN SubSeq(s, first, last)

\* line.match(/^\d+[.)]/)
StartsNumbered(line) ==
    \E k \in 1..(Len(line) - 1) :
        /\ \A j \in 1..k : line[j] \in Digits
        /\ line[k + 1] \in {".", ")"}

SelectLines(lines) == SelectSeq(lines, LAMBDA l : Len(l) > 0 /\ ~StartsNumbered(l))

RECURSIVE PadVariations(_, _)
\* while (rewrittenTitles.length < 5) push(`${title} - Variation ${length + 1}`)
PadVariations(rewrittenTitles, title) ==
    IF Len(rewrittenTitles) >= 5
    THEN rewrittenTitles
    ELSE PadVariations(
             Append(rewrittenTitles,
                    title \o <<" - Variation ", ToString(Len(rewrittenTitles) + 1)>>),
             title)

\* the five titles taken from the reply's content
ExtractRewrites(content, title) ==
    LET lines == SplitOn(content, "\n")
        trimmed == [i \in 1..Len(lines) |-> Trim(lines[i])]
    IN PadVariations(Take(SelectLines(trimmed), 5), title)

\* what openai.chat.completions.create resolves with
Completion(hasChoices, content) == [hasChoices |-> hasChoices, content |-> content]
ContentPlain == <<"A", "1", "\n", "B", "2", "\n", "\n", " ", "C", "3", " ", "\n", "D", "4", "\n", "E", "5", "\n", "F", "6">>
ContentNumbered == <<"1", ".", " ", "A", "\n", "2", ")", " ", "B", "\n", "C">>
Completions ==
    {Completion(FALSE, Undefined), Completion(TRUE, Undefined), Completion(TRUE, Str(<<>>)),
     Completion(TRUE, Str(ContentPlain)), Completion(TRUE, Str(ContentNumbered))}

(***************************************************************************)
(* What a successful remote call resolves with.  JSON.parse of a reply is  *)
(* modelled by its result: the text either parses to a value or does not.  *)
(***************************************************************************)
Text(parses, value) == [type |-> "string", parses |-> parses, value |-> value]
Arr(items) == [type |-> "array", items |-> items]
ScoreObject(overall, breakdown, improvements, strengths) ==
    [type |-> "object", overall |-> overall, breakdown |-> breakdown,
     improvements |-> improvements, strengths |-> strengths]

ReplyBreakdown ==
    [type |-> "object", length |-> 90, keywords |-> 80, engagement |-> 85,
     clarity |-> 70, trending |-> 100]
FullScore ==
    ScoreObject(Num(85), ReplyBreakdown, Arr(<<"Add a number">>), Arr(<<"Clear topic">>))

\* the texts generateText resolves with (score-title)
ScoreTexts ==
    {Text(FALSE, Undefined),
     Text(TRUE, Null),
     Text(TRUE, Num(7)),
     Text(TRUE, FullScore),
     Text(TRUE, [FullScore EXCEPT !.overall = Num(0)]),
     Text(TRUE, [FullScore EXCEPT !.improvements = Arr(<<>>)]),
     Text(TRUE, [FullScore EXCEPT !.overall = Num(150)]),
     Text(TRUE, [FullScore EXCEPT !.improvements =
                    Arr(<<"Add a number", "Add the year", "Shorten it", "Ask a question",
                          "Name the game">>)]),
     Text(TRUE, [FullScore EXCEPT !.overall = Undefined]),
     Text(TRUE, [FullScore EXCEPT !.breakdown = Undefined]),
     Text(TRUE, [FullScore EXCEPT !.improvements = Undefined]),
     Text(TRUE, [FullScore EXCEPT !.strengths = Undefined])}

\* the body of an ok response of the chat-completions endpoint (generate-content)
ChatBody(jsonOk, hasChoices, content) ==
    [jsonOk |-> jsonOk, hasChoices |-> hasChoices, content |-> content]
GeneratedContent == [type |-> "object", titles |-> 3, description |-> TRUE]
ChatBodies ==
    {ChatBody(FALSE, FALSE, Undefined),
     ChatBody(TRUE, FALSE, Undefined),
     ChatBody(TRUE, TRUE, Null),
     ChatBody(TRUE, TRUE, Text(TRUE, GeneratedContent)),
     ChatBody(TRUE, TRUE, Text(FALSE, Undefined))}

\* the value a directly called helper's operation resolves with
DirectValue == Str(<<"o", "k">>)

(***************************************************************************)
(* The retry loops.  One action is one pass of the loop body: it invokes   *)
(* the operation and returns, throws, or starts a delay; Timeout is the    *)
(* setTimeout callback that ends the delay and starts the next pass.       *)
(***************************************************************************)
DefaultMaxRetries == 3
BaseDelay == 1000

\* the operation's outcome on its i-th invocation; past the script it keeps
\* doing what it did last
ScriptAt(i) ==
    IF Len(script) = 0 THEN Success
    ELSE IF i <= Len(script) THEN script[i] ELSE script[Len(script)]

Retry(delay) == [do |-> "retry", delay |-> delay, error |-> NoError]
Rethrow(error) == [do |-> "throw", delay |-> 0, error |-> error]
UseFallback == [do |-> "fallback", delay |-> 0, error |-> NoError]

Return(v) ==
    /\ pc' = "returned"
    /\ ret' = Returned(v)
    /\ UNCHANGED <<attempt, waits>>

Throw(e) ==
    /\ pc' = "returned"
    /\ ret' = Thrown(e)
    /\ UNCHANGED <<attempt, waits>>

Sleep(delay) ==
    /\ pc' = "sleep"
    /\ waits' = Append(waits, delay)
    /\ UNCHANGED <<attempt, ret>>

\* mutant: gives up one attempt early
retryWithBackoffCatch_StopsEarly(error, att, max) ==
    IF error.status = 429 /\ att < max - 2
    THEN Retry(BaseDelay * Pow2(att))
    ELSE Rethrow(error)

\* mutant: retries whatever the failure is
retryWithBackoffCatch_RetriesAnyError(error, att, max) ==
    IF att < max - 1
    THEN Retry(BaseDelay * Pow2(att))
    ELSE Rethrow(error)

\* mutant: waits and loops after the last attempt too
retryWithBackoffCatch_AlwaysRetries(error, att, max) ==
    IF error.status = 429
    THEN Retry(BaseDelay * Pow2(att))
    ELSE Rethrow(error)

\* score-title: the catch block of retryWithBackoff
retryWithBackoffCatch(error, att, max) ==
    IF error.status = 429 /\ att < max - 1
    THEN Retry(BaseDelay * Pow2(att))
    ELSE Rethrow(error)

retryWithBackoffContinues(att, max) == att < max

retryWithBackoff ==
    /\ pc = "loop"
    /\ loop = "retryWithBackoff"
    /\ IF retryWithBackoffContinues(attempt, maxRetries)
       THEN LET o == ScriptAt(calls + 1) IN
            /\ calls' = calls + 1
            /\ IF o.ok
               THEN \E v \in (IF handler = "direct" THEN {DirectValue} ELSE ScoreTexts) :
                        Return(v)
               ELSE LET c == retryWithBackoffCatch(ErrorOf(o), attempt, maxRetries) IN
                    IF c.do = "retry" THEN Sleep(c.delay) ELSE Throw(c.error)
       ELSE /\ calls' = calls
            /\ Throw(Err(0, <<"Max", "retries", "exceeded">>))
    /\ UNCHANGED <<clientVars, env, handler, body, currentYear, upstream, tasks, loop, maxRetries, script, resp>>

\* mutant: the wait grows by one second with every attempt
makeOpenAIRequestNotOk_LinearDelay(status, att, retries) ==
    IF status = 429 /\ att < retries - 1
    THEN Retry((att + 1) * 1000)
    ELSE Rethrow(Err(0, <<"OpenAI", "API", "error", ":", ToString(status)>>))

\* generate-content: what makeOpenAIRequest does with a response that is not ok
makeOpenAIRequestNotOk(status, att, retries) ==
    IF status = 429 /\ att < retries - 1
    THEN Retry(Pow2(att) * 1000)
    ELSE Rethrow(Err(0, <<"OpenAI", "API", "error", ":", ToString(status)>>))

makeOpenAIRequest ==
    /\ pc = "loop"
    /\ loop = "makeOpenAIRequest"
    /\ IF attempt < maxRetries
       THEN LET o == ScriptAt(calls + 1) IN
            /\ calls' = calls + 1
            /\ IF o.ok
               THEN \E v \in (IF handler = "direct" THEN {DirectValue} ELSE ChatBodies) :
                        Return(v)
               ELSE IF o.status = 0
               THEN Throw(ErrorOf(o))
               ELSE LET c == makeOpenAIRequestNotOk(o.status, attempt, maxRetries) IN
                    IF c.do = "retry" THEN Sleep(c.delay) ELSE Throw(c.error)
       ELSE /\ calls' = calls
            /\ Throw(Err(0, <<"Max", "retries", "exceeded">>))
    /\ UNCHANGED <<clientVars, env, handler, body, currentYear, upstream, tasks, loop, maxRetries, script, resp>>

\* rewrite-titles: the try block of rewriteTitlesWithAI, for a resolved call
rewriteTitlesWithAITry(completion, title) ==
    IF ~completion.hasChoices THEN Thrown(TypeError)
    ELSE IF ~Truthy(completion.content)
    THEN Thrown(Err(0, <<"No", "content", "received", "from", "OpenAI">>))
    ELSE Returned(ExtractRewrites(completion.content.str, title))

\* rewrite-titles: the catch block of rewriteTitlesWithAI
rewriteTitlesWithAICatch(error, att, max) ==
    IF error.status = 429
    THEN IF att < max
         THEN Retry(Pow2(att) * 1000)
         ELSE Rethrow(Err(0, <<"Rate", "limit", "exceeded", ".", "Please", "try",
                               "again", "in", "a", "moment", ".">>))
    ELSE IF error.status = 402 THEN UseFallback
    ELSE IF att = max THEN Rethrow(error)
    ELSE Retry(1000 * att)

TitleArg == body.field.str

rewriteTitlesWithAI ==
    /\ pc = "loop"
    /\ loop = "rewriteTitlesWithAI"
    /\ IF attempt <= maxRetries
       THEN LET o == ScriptAt(calls + 1) IN
            /\ calls' = calls + 1
            /\ \E completion \in (IF o.ok THEN Completions ELSE {Completion(FALSE, Undefined)}) :
               LET tried == IF o.ok THEN rewriteTitlesWithAITry(completion, TitleArg)
                            ELSE Thrown(ErrorOf(o))
               IN  IF tried.kind = "value"
                   THEN Return(tried.value)
                   ELSE LET c == rewriteTitlesWithAICatch(tried.error, attempt, maxRetries) IN
                        IF c.do = "retry" THEN Sleep(c.delay)
                        ELSE IF c.do = "fallback"
                        THEN \E r1 \in RandomDraws, r2 \in RandomDraws :
                                 Return(generateFallbackRewrites(TitleArg, r1, r2))
                        ELSE Throw(c.error)
       ELSE /\ calls' = calls
            /\ Throw(Err(0, <<"Failed", "to", "rewrite", "titles", "after", "all", "attempts">>))
    /\ UNCHANGED <<clientVars, env, handler, body, currentYear, upstream, tasks, loop, maxRetries, script, resp>>

\* mutant: the loop goes on without counting the attempt
Timeout_KeepsAttempt ==
    /\ pc = "sleep"
    /\ pc' = "loop"
    /\ UNCHANGED <<clientVars, env, handler, body, currentYear, upstream, tasks, loop, maxRetries, script,
                   attempt, calls, waits, ret, resp>>

\* the setTimeout callback: the delay is over, the loop goes on (attempt++)
Timeout ==
    /\ pc = "sleep"
    /\ pc' = "loop"
    /\ attempt' = attempt + 1
    /\ UNCHANGED <<clientVars, env, handler, body, currentYear, upstream, tasks, loop, maxRetries, script,
                   calls, waits, ret, resp>>

(***************************************************************************)
(* A retry helper called directly, as a unit test calls it.                *)
(***************************************************************************)
Loops == {"retryWithBackoff", "makeOpenAIRequest", "rewriteTitlesWithAI"}
FirstAttempt(l) == IF l = "rewriteTitlesWithAI" THEN 1 ELSE 0

NoBody == [parse |-> "object", field |-> Undefined]
\* NextResponse.json(body, { status })
Json(status, b) == [status |-> status, body |-> b]
NoResp == [status |-> 0, body |-> [pending |-> TRUE]]
\* no fetch to the YouTube API has settled
NoFetch == [pending |-> TRUE]
\* the handler's promise rejects: no response was produced
Unhandled(e) == [status |-> 0, body |-> [unhandled |-> e]]

Call ==
    /\ pc = "idle"
    /\ \E l \in Loops, m \in 0..MaxRetriesBound, t \in Titles :
        /\ \E s \in [1..m -> DirectOutcomes] : script' = s
        /\ loop' = l
        /\ maxRetries' = m
        /\ attempt' = FirstAttempt(l)
        /\ body' = [parse |-> "object", field |-> Str(t)]
    /\ handler' = "direct"
    /\ pc' = "loop"
    /\ calls' = 0
    /\ waits' = <<>>
    /\ ret' = NoRet
    /\ UNCHANGED <<clientVars, env, currentYear, upstream, tasks, resp>>

InitRetry ==
    /\ NotMounted
    /\ env = [openai |-> TRUE, youtube |-> TRUE]
    /\ pc = "idle"
    /\ handler = "none"
    /\ body = NoBody
    /\ currentYear \in Years
    /\ loop = "none"
    /\ maxRetries = DefaultMaxRetries
    /\ script = <<>>
    /\ attempt = 0
    /\ calls = 0
    /\ waits = <<>>
    /\ ret = NoRet
    /\ upstream = NoFetch
    /\ tasks = <<>>
    /\ resp = NoResp

NextRetry == Call \/ retryWithBackoff \/ makeOpenAIRequest \/ rewriteTitlesWithAI \/ Timeout

SpecRetry == InitRetry /\ [][NextRetry]_vars

\* The same calls when the event loop runs every continuation that is ready:
\* an awaited call that has settled resumes its loop, and a timer that was set
\* fires.
SpecRetryFair ==
    /\ InitRetry
    /\ [][NextRetry]_vars
    /\ WF_vars(retryWithBackoff)
    /\ WF_vars(makeOpenAIRequest)
    /\ WF_vars(rewriteTitlesWithAI)
    /\ WF_vars(Timeout)

(***************************************************************************)
(* The heuristic scorer called directly, as a unit test calls it: the      *)
(* title is put together from fragments that carry the features the        *)
(* sub-scores look at, or padded to a length.                              *)
(***************************************************************************)
Fragments ==
    {<<"h", "o", "w", " ", "t", "o", " ", "b", "e", "s", "t", " ", "t", "o", "p", " ", "g", "u", "i", "d", "e", " ", "t", "u", "t", "o", "r", "i", "a", "l", " ">>,
     <<"r", "e", "v", "i", "e", "w", " ", "v", "s", " ", "t", "i", "p", "s", " ", "t", "r", "i", "c", "k", "s", " ", "s", "e", "c", "r", "e", "t", "s", " ">>,
     <<"2", "0", "2", "4", " ", "2", "0", "2", "5", " ", "n", "e", "w", " ", "l", "a", "t", "e", "s", "t", " ", "u", "p", "d", "a", "t", "e", " ", "v", "i", "r", "a", "l", " ", "t", "r", "e", "n", "d", "i", "n", "g", " ">>,
     <<"a", "m", "a", "z", "i", "n", "g", " ", "i", "n", "c", "r", "e", "d", "i", "b", "l", "e", " ", "s", "h", "o", "c", "k", "i", "n", "g", " ", "u", "n", "b", "e", "l", "i", "e", "v", "a", "b", "l", "e", " ">>,
     <<"S", "E", "C", "R", "E", "T", " ", "H", "i", "d", "d", "e", "n", " ", "u", "l", "t", "i", "m", "a", "t", "e", " ", "p", "e", "r", "f", "e", "c", "t", " ">>,
     <<"W", "O", "W", " ", "1", "0", "?", "!", " ">>,
     <<"W", "h", "y", "?", " ">>,
     <<"U", "n", "b", "o", "x", "i", "n", "g", ":", " ">>,
     <<"f", "i", "r", "s", "t", " ", "t", "i", "m", "e", " ", "t", "r", "y", "i", "n", "g", " ", "c", "h", "a", "l", "l", "e", "n", "g", "e", " ", "r", "e", "a", "c", "t", "i", "o", "n", " ">>,
     <<"a", ",", " ", "b", ";", " ", "c", ".", " ", "d", "!", " ">>,
     <<"m", "y", " ", "v", "l", "o", "g", " ", "-", " ">>,
     <<"2", "0", "2", "6", " ">>}

MaxParts == 2
MaxLength == 85

RECURSIVE Concat(_)
Concat(parts) == IF parts = <<>> THEN <<>> ELSE parts[1] \o Concat(Tail(parts))

Pad(n) == [i \in 1..n |-> "x"]

FragmentTitles == {Concat(parts) : parts \in UNION {[1..n -> Fragments] : n \in 0..MaxParts}}
PaddedTitles ==
    {prefix \o Pad(n) : prefix \in {<<>>,
                        <<"B", "e", "s", "t", ":", " ">>,
                        <<"W", "O", "W", " ", "1", "0", "?", "!", " ">>},
                        n \in 0..MaxLength}
ScorerTitles == Titles \cup FragmentTitles \cup PaddedTitles

\* sub-scores around the two thresholds of the suggestion texts
SubScores == {69, 70, 79, 80}
Breakdowns ==
    [length : SubScores, keywords : SubScores, engagement : SubScores,
     clarity : SubScores, trending : SubScores]
\* titles on both sides of the two lengths generateImprovements compares with
SuggestionTitles == {Pad(39), Pad(40), Pad(70), Pad(71)}

Args(title, breakdown) == [parse |-> "object", field |-> Str(title), breakdown |-> breakdown]

\* calculateFallbackScore(title) is called
ScoreTitleDirectly ==
    /\ pc = "idle"
    /\ \E title \in ScorerTitles :
         /\ body' = Args(title, Undefined)
         /\ ret' = Returned(calculateFallbackScore(title, currentYear))
    /\ handler' = "direct"
    /\ loop' = "calculateFallbackScore"
    /\ pc' = "returned"
    /\ UNCHANGED <<clientVars, env, currentYear, maxRetries, script, attempt, calls, waits, upstream,
                   tasks, resp>>

\* generateImprovements(title, breakdown) and generateStrengths(title, breakdown)
\* are called
SuggestDirectly ==
    /\ pc = "idle"
    /\ \E title \in SuggestionTitles, breakdown \in Breakdowns :
         /\ body' = Args(title, breakdown)
         /\ ret' = Returned([improvements |-> generateImprovements(title, breakdown),
                             strengths |-> generateStrengths(title, breakdown)])
    /\ handler' = "direct"
    /\ loop' = "generateImprovements"
    /\ pc' = "returned"
    /\ UNCHANGED <<clientVars, env, currentYear, maxRetries, script, attempt, calls, waits, upstream,
                   tasks, resp>>

NextScore == ScoreTitleDirectly \/ SuggestDirectly

SpecScore == InitRetry /\ [][NextScore]_vars

(***************************************************************************)
(* The HTTP handlers.  Request delivers a request to an endpoint; each     *)
(* POST action runs the handler up to its first remote call; the Resume    *)
(* action of a handler runs it from the remote result to the response.     *)
(***************************************************************************)
AIHandlers == {"score-title", "rewrite-titles", "generate-content"}

BodyMalformed == [parse |-> "throws", field |-> Undefined]
BodyNull == [parse |-> "null", field |-> Undefined]
BodyWith(v) == [parse |-> "object", field |-> v]
\* the values of the required field (title, keyword)
FieldValues == {Undefined, Str(<<>>), Num(5)} \cup {Str(t) : t \in Titles}
Bodies == {BodyMalformed, BodyNull} \cup {BodyWith(v) : v \in FieldValues}

\* `const { field } = await request.json()` succeeds
Destructures(b) == b.parse = "object"
SyntaxError == Err(0, <<"Unexpected", "token", "in", "JSON">>)
\* what `const { field } = await request.json()` throws when it fails
DestructureError(b) == IF b.parse = "throws" THEN SyntaxError ELSE TypeError

ErrorBody(text) == [error |-> text]
RateLimitBody(text) == [error |-> text, type |-> "rate_limit"]

Respond(r) ==
    /\ pc' = "done"
    /\ resp' = r
    /\ UNCHANGED <<loop, maxRetries, script, attempt, calls, waits, ret>>

\* the handler awaits its retry helper, called with the default maxRetries
StartLoop(l) ==
    /\ pc' = "loop"
    /\ loop' = l
    /\ maxRetries' = DefaultMaxRetries
    /\ attempt' = FirstAttempt(l)
    /\ script' \in [1..DefaultMaxRetries -> Outcomes]
    /\ UNCHANGED <<calls, waits, ret, resp>>

(*************************** score-title ***********************************)
\* { ...fallbackScore, fallbackUsed: true, message }
WithFallbackUsed(score, message) ==
    [overall |-> score.overall, breakdown |-> score.breakdown,
     improvements |-> score.improvements, strengths |-> score.strengths,
     fallbackUsed |-> TRUE, message |-> message]

\* mutant: the outermost catch gives up at once
scoreTitleOuterCatch_Surfaces500(title, year) ==
    Json(500, ErrorBody("Failed to score title. Please try again."))

\* the outermost catch: `title` is still undefined, or the validated string
scoreTitleOuterCatch(title, year) ==
    IF Truthy(title) /\ title.type # "string"
    THEN Json(500, ErrorBody("Failed to score title. Please try again."))
    ELSE Json(200, calculateFallbackScore(IF Truthy(title) THEN title.str ELSE <<>>, year))

\* mutant: any other AI error is surfaced as a generic failure
scoreTitleAICatch_Surfaces500(aiError, title, year) ==
    IF \/ aiError.status = 402
       \/ MessageIncludes(aiError, <<"quota">>)
       \/ MessageIncludes(aiError, <<"billing">>)
    THEN Json(200, WithFallbackUsed(calculateFallbackScore(title, year),
              "AI analysis unavailable due to quota limits. Using rule-based scoring."))
    ELSE IF aiError.status = 429
    THEN Json(200, WithFallbackUsed(calculateFallbackScore(title, year),
              "AI analysis temporarily unavailable. Using rule-based scoring."))
    ELSE Json(500, ErrorBody("Failed to score title. Please try again."))

\* catch (aiError)
scoreTitleAICatch(aiError, title, year) ==
    IF \/ aiError.status = 402
       \/ MessageIncludes(aiError, <<"quota">>)
       \/ MessageIncludes(aiError, <<"billing">>)
    THEN Json(200, WithFallbackUsed(calculateFallbackScore(title, year),
              "AI analysis unavailable due to quota limits. Using rule-based scoring."))
    ELSE IF aiError.status = 429
    THEN Json(200, WithFallbackUsed(calculateFallbackScore(title, year),
              "AI analysis temporarily unavailable. Using rule-based scoring."))
    ELSE Json(200, calculateFallbackScore(title, year))

\* from the resolved generateText to the response
scoreTitleParse(text, title, year) ==
    IF ~text.parses
    THEN Json(200, calculateFallbackScore(title, year))
    ELSE LET scoreData == text.value IN
         IF scoreData.type = "null"
         THEN scoreTitleAICatch(TypeError, title, year)
         ELSE IF scoreData.type # "object"
         THEN Json(200, calculateFallbackScore(title, year))
         ELSE IF \/ ~Truthy(scoreData.overall)
                 \/ ~Truthy(scoreData.breakdown)
                 \/ ~Truthy(scoreData.improvements)
                 \/ ~Truthy(scoreData.strengths)
         THEN Json(200, calculateFallbackScore(title, year))
         ELSE Json(200, scoreData)

ValidTitle(v) == Truthy(v) /\ v.type = "string"

\* mutant: the credential is not looked at
scoreTitleEntry_IgnoresKey(b, e) ==
    IF ~Destructures(b) THEN "catch"
    ELSE IF ~ValidTitle(b.field) THEN "400"
    ELSE "call"

\* the handler up to the remote call: which way it leaves
scoreTitleEntry(b, e) ==
    IF ~Destructures(b) THEN "catch"
    ELSE IF ~ValidTitle(b.field) THEN "400"
    ELSE IF ~e.openai THEN "fallback"
    ELSE "call"

ScoreTitlePOST ==
    /\ pc = "received"
    /\ handler = "score-title"
    /\ LET way == scoreTitleEntry(body, env) IN
       IF way = "catch"
       THEN Respond(scoreTitleOuterCatch(Undefined, currentYear))
       ELSE IF way = "400"
       THEN Respond(Json(400, ErrorBody("Title is required")))
       ELSE IF way = "fallback"
       THEN Respond(Json(200, calculateFallbackScore(body.field.str, currentYear)))
       ELSE StartLoop("retryWithBackoff")
    /\ UNCHANGED <<clientVars, env, handler, body, currentYear, upstream, tasks>>

ScoreTitleResume ==
    /\ pc = "returned"
    /\ handler = "score-title"
    /\ IF ret.kind = "value"
       THEN Respond(scoreTitleParse(ret.value, TitleArg, currentYear))
       ELSE Respond(scoreTitleAICatch(ret.error, TitleArg, currentYear))
    /\ UNCHANGED <<clientVars, env, handler, body, currentYear, upstream, tasks>>

(*************************** rewrite-titles ********************************)
RewriteBody(rewrittenTitles, title, fallbackUsed) ==
    IF fallbackUsed
    THEN [success |-> TRUE, rewrittenTitles |-> rewrittenTitles, originalTitle |-> title,
          fallbackUsed |-> TRUE,
          message |-> "Generated using basic rewrite patterns (OpenAI unavailable)"]
    ELSE [success |-> TRUE, rewrittenTitles |-> rewrittenTitles, originalTitle |-> title,
          fallbackUsed |-> FALSE]

\* the outermost catch
rewriteTitlesOuterCatch(error) ==
    IF MessageIncludes(error, <<"Rate", "limit", "exceeded">>)
    THEN Json(429, RateLimitBody("Rate limit exceeded. Please wait a moment before trying again."))
    ELSE Json(500, ErrorBody("Failed to rewrite titles. Please try again."))

\* the catch around rewriteTitlesWithAI: fall back, answer 500, or throw
\* (error.message.includes on a thrown value without a message)
rewriteTitlesInnerCatch(error) ==
    IF ~error.isError THEN "throw"
    ELSE IF \/ MessageIncludes(error, <<"quota", "exceeded">>)
            \/ MessageIncludes(error, <<"Rate", "limit", "exceeded">>)
    THEN "fallback"
    ELSE "500"

RespondFallbackRewrites(title) ==
    \E r1 \in RandomDraws, r2 \in RandomDraws :
        Respond(Json(200, RewriteBody(generateFallbackRewrites(title, r1, r2), title, TRUE)))

\* the handler up to the remote call: which way it leaves
rewriteTitlesEntry(b, e) ==
    IF ~Destructures(b) THEN "catch"
    ELSE IF ~ValidTitle(b.field) THEN "400"
    ELSE IF ~e.openai THEN "fallback"
    ELSE "call"

RewriteTitlesPOST ==
    /\ pc = "received"
    /\ handler = "rewrite-titles"
    /\ LET way == rewriteTitlesEntry(body, env) IN
       IF way = "catch"
       THEN Respond(rewriteTitlesOuterCatch(DestructureError(body)))
       ELSE IF way = "400"
       THEN Respond(Json(400, ErrorBody("Title is required and must be a string")))
       ELSE IF way = "fallback"
       THEN RespondFallbackRewrites(body.field.str)
       ELSE StartLoop("rewriteTitlesWithAI")
    /\ UNCHANGED <<clientVars, env, handler, body, currentYear, upstream, tasks>>

RewriteTitlesResume ==
    /\ pc = "returned"
    /\ handler = "rewrite-titles"
    /\ IF ret.kind = "value"
       THEN Respond(Json(200, RewriteBody(ret.value, TitleArg, FALSE)))
       ELSE LET c == rewriteTitlesInnerCatch(ret.error) IN
            IF c = "fallback" THEN RespondFallbackRewrites(TitleArg)
            ELSE IF c = "500"
            THEN Respond(Json(500, ErrorBody("Failed to rewrite titles. Please try again.")))
            ELSE Respond(rewriteTitlesOuterCatch(TypeError))
    /\ UNCHANGED <<clientVars, env, handler, body, currentYear, upstream, tasks>>

(*************************** generate-content ******************************)
\* keyword.replace(/\s+/g, "")
StripSpaces(s) == SelectSeq(s, LAMBDA c : c # " ")

ContentTemplate(keyword) ==
    [titles |->
        <<<<"Ultimate ">> \o keyword \o <<" Guide That Actually Works!">>,
          keyword \o <<": The Secret Method Nobody Talks About">>,
          <<"I Tried ">> \o keyword \o <<" for 30 Days - Here's What Happened">>>>,
     description |->
        <<"Discover the most effective ">> \o keyword
        \o <<" strategies that top creators don't want you to know! In this comprehensive guide, you'll learn proven techniques that have helped thousands of people master ">>
        \o keyword
        \o <<". Whether you're a complete beginner or looking to take your skills to the next level, this video covers everything you need to know. We'll break down complex concepts into easy-to-follow steps, share real-world examples, and give you actionable tips you can implement immediately. Don't forget to subscribe for more ">>
        \o keyword
        \o <<" content! #">> \o StripSpaces(keyword) \o <<" #Tutorial #Guide #Tips">>]

\* mutant: the rate-limit branch is missing
generateContentCatch_No429(error) ==
    Json(500, ErrorBody("Failed to generate AI content"))

\* the outermost catch
generateContentCatch(error) ==
    IF error.isError /\ Includes(error.message, <<"429">>)
    THEN Json(429, RateLimitBody("OpenAI API rate limit exceeded. Please wait a moment and try again."))
    ELSE Json(500, ErrorBody("Failed to generate AI content"))

\* from the ok response of makeOpenAIRequest to the handler's response
generateContentParse(chat, keyword) ==
    IF ~chat.jsonOk THEN generateContentCatch(SyntaxError)
    ELSE IF ~chat.hasChoices THEN generateContentCatch(TypeError)
    ELSE IF chat.content.type = "null" THEN Json(200, Null)
    ELSE IF chat.content.parses THEN Json(200, chat.content.value)
    ELSE IF keyword.type # "string" THEN generateContentCatch(TypeError)
    ELSE Json(200, ContentTemplate(keyword.str))

\* the handler up to the remote call: which way it leaves
generateContentEntry(b, e) ==
    IF ~Destructures(b) THEN "catch"
    ELSE IF ~Truthy(b.field) THEN "400"
    ELSE IF ~e.openai THEN "no key"
    ELSE "call"

GenerateContentPOST ==
    /\ pc = "received"
    /\ handler = "generate-content"
    /\ LET way == generateContentEntry(body, env) IN
       IF way = "catch"
       THEN Respond(generateContentCatch(DestructureError(body)))
       ELSE IF way = "400"
       THEN Respond(Json(400, ErrorBody("Keyword is required")))
       ELSE IF way = "no key"
       THEN Respond(Json(500, ErrorBody("OpenAI API key not configured")))
       ELSE StartLoop("makeOpenAIRequest")
    /\ UNCHANGED <<clientVars, env, handler, body, currentYear, upstream, tasks>>

GenerateContentResume ==
    /\ pc = "returned"
    /\ handler = "generate-content"
    /\ IF ret.kind = "value"
       THEN Respond(generateContentParse(ret.value, body.field))
       ELSE Respond(generateContentCatch(ret.error))
    /\ UNCHANGED <<clientVars, env, handler, body, currentYear, upstream, tasks>>

(***************************************************************************)
(* The YouTube Data API as the handlers see it: a fetch that rejects, or a *)
(* response with a status whose body parses as JSON or not.                *)
(***************************************************************************)
FetchRejects == [threw |-> TRUE, ok |-> FALSE, status |-> 0, parses |-> FALSE, data |-> Null]
Response(status, parses, data) ==
    [threw |-> FALSE, ok |-> (status >= 200 /\ status <= 299), status |-> status,
     parses |-> parses, data |-> data]

\* a JSON object with an items property, or without one
Listing(items) == [type |-> "object", items |-> items]

Snippet(title, categoryId) ==
    [type |-> "object", title |-> title, categoryId |-> categoryId]
Statistics(viewCount) == [type |-> "object", viewCount |-> viewCount]
Video(snippet, statistics) == [snippet |-> snippet, statistics |-> statistics]

VideoLive ==
    Video(Snippet(<<"B", "G", "M", "I", " ", "L", "i", "v", "e", " ", "S", "t", "r", "e", "a", "m", " ", "-", " ", "T", "o", "d", "a", "y", "!">>, "20"),
          Statistics(Str(<<"2", "5", "0", "0", "0", "0", "0">>)))
\* the same leading words as VideoLive, fewer views
VideoLiveAgain ==
    Video(Snippet(<<"B", "G", "M", "I", " ", "L", "i", "v", "e", " ", "S", "t", "r", "e", "a", "m", " ", "A", "g", "a", "i", "n">>, "20"),
          Statistics(Str(<<"9", "0", "0", "1", "0", "0">>)))
VideoSong ==
    Video(Snippet(<<"N", "e", "w", " ", "S", "o", "n", "g">>, "10"),
          Statistics(Str(<<"7", "0", "0", "0", "0", "0", "0", "0", "0">>)))
VideoNoCount == Video(Snippet(<<"A", " ", "D", "a", "y", " ", "i", "n", " ", "M", "y", " ", "L", "i", "f", "e">>, "24"), Statistics(Undefined))
VideoNoSnippet == Video(Undefined, Statistics(Str(<<"5", "0", "0">>)))
VideoNoStatistics == Video(Snippet(<<"N", "e", "w", " ", "S", "o", "n", "g">>, "10"), Undefined)
VideoCatalog ==
    {VideoLive, VideoLiveAgain, VideoSong, VideoNoCount, VideoNoSnippet, VideoNoStatistics}

MaxItems == 2
VideoLists == UNION {[1..n -> VideoCatalog] : n \in 0..MaxItems}

\* a chart longer than the ten entries the handlers return: video i has its own
\* title and more views than the videos before it
MaxClips == 12
Clip(i) ==
    Video(Snippet(<<"T", "r", "a", "i", "l", "e", "r", " ">> \o [j \in 1..4 |-> LowerLetters[i]], "1"),
          Statistics(Str(<<ToString((i + 10) \div 10), ToString((i + 10) % 10),
                           "0", "0", "0", "0", "0">>)))
ManyVideos == [i \in 1..MaxClips |-> Clip(i)]
LongVideoLists == {ManyVideos, <<VideoLive>> \o ManyVideos \o <<VideoLiveAgain>>}

\* what the videos endpoint can answer
VideoResponses ==
    {FetchRejects, Response(403, TRUE, Listing(Undefined)), Response(500, FALSE, Null),
     Response(200, FALSE, Null), Response(200, TRUE, Null),
     Response(200, TRUE, Listing(Undefined))}
    \cup {Response(200, TRUE, Listing(Arr(l))) : l \in VideoLists \cup LongVideoLists}

\* the categoryId of a trending request
CategoryValues == {Undefined, Str(<<"a", "l", "l">>), Str(<<"2", "0">>)}

\* `categoryId && categoryId !== "all" && categoryId !== "0"`
FiltersCategory(categoryId) ==
    /\ Truthy(categoryId)
    /\ categoryId # Str(<<"a", "l", "l">>)
    /\ categoryId # Str(<<"0">>)

\* error instanceof Error ? error.message : "Unknown error"
Details(error) == IF error.isError THEN error.message ELSE <<"Unknown", "error">>
FailureBody(text, error) == [error |-> text, details |-> Details(error)]

\* a property is read from undefined or null
ReadsMissing(v) == v.type \in {"undefined", "null"}

(*************************** trending, India *******************************)
getCategoryHashtags(categoryId) ==
    LET key == IF categoryId.type = "string" THEN categoryId.str ELSE <<>> IN
    CASE key = <<"2", "0">> ->
           <<"#BGMI", "#Gaming", "#PUBGMobile", "#FreeFire", "#CallOfDuty", "#Esports",
             "#GamingIndia", "#MobileGaming", "#LiveGaming", "#ProGamer">>
      [] key = <<"1", "0">> ->
           <<"#BollyWood", "#Music", "#Song", "#Dance", "#Singer", "#MusicVideo",
             "#IndianMusic", "#Trending", "#Viral", "#NewSong">>
      [] key = <<"1", "7">> ->
           <<"#Cricket", "#Football", "#Sports", "#IPL", "#IndianSports", "#Fitness",
             "#Workout", "#Match", "#Tournament", "#Champion">>
      [] key = <<"2", "4">> ->
           <<"#Entertainment", "#Comedy", "#Funny", "#Viral", "#Trending", "#Bollywood",
             "#Drama", "#Movie", "#Celebrity", "#Fun">>
      [] key = <<"2", "7">> ->
           <<"#Education", "#Learning", "#Study", "#Tutorial", "#Knowledge", "#School",
             "#College", "#Exam", "#Tips", "#Guide">>
      [] key = <<"2", "8">> ->
           <<"#Technology", "#Tech", "#Innovation", "#Science", "#AI", "#Mobile",
             "#Gadgets", "#Review", "#Latest", "#Future">>
      [] key = <<"2", "5">> ->
           <<"#News", "#Politics", "#India", "#Current", "#Breaking", "#Update",
             "#Government", "#Election", "#Policy", "#Nation">>
      [] OTHER ->
           <<"#Trending", "#Viral", "#India", "#Popular", "#Latest", "#Hot", "#New",
             "#Top", "#Best", "#Amazing">>

\* Number.parseInt(video.statistics.viewCount || "0")
ViewCountOrZero(viewCount) ==
    IF Truthy(viewCount) /\ viewCount.type = "string" THEN ParseInt(viewCount.str) ELSE 0

\* Math.floor(n / 1000), NaN staying NaN
Thousands(n) == IF n = NaN THEN NaN ELSE n \div 1000

\* the .map callback of the India handler
trendingIndiaEntry(video) ==
    [keyword |-> Join(Take(SplitOn(video.snippet.title, " "), 3), <<" ">>),
     searchVolume |-> Thousands(ViewCountOrZero(video.statistics.viewCount)),
     category |-> video.snippet.categoryId]

\* the callback reads .title of a missing snippet or .viewCount of missing statistics
VideoThrows(video) == ReadsMissing(video.snippet) \/ ReadsMissing(video.statistics)

trendingIndiaCatch(error) ==
    Json(500, FailureBody("Failed to fetch trending videos", error))

\* mutant: the credential is not looked at
trendingIndiaPOSTEntry_IgnoresKey(b, e) ==
    IF ~Destructures(b) THEN "catch" ELSE "call"

\* the handler up to the fetch: which way it leaves
trendingIndiaPOSTEntry(b, e) ==
    IF ~Destructures(b) THEN "catch"
    ELSE IF ~e.youtube THEN "no key"
    ELSE "call"

\* from the settled fetch to the response
trendingIndiaFetched(r, categoryId) ==
    IF r.threw THEN trendingIndiaCatch(Err(0, <<"fetch", "failed">>))
    ELSE IF ~r.ok
    THEN trendingIndiaCatch(Err(0, <<"YouTube", "API", "error", ":", ToString(r.status)>>))
    ELSE IF ~r.parses THEN trendingIndiaCatch(SyntaxError)
    ELSE IF ReadsMissing(r.data) THEN trendingIndiaCatch(TypeError)
    ELSE IF ~Truthy(r.data.items) \/ Len(r.data.items.items) = 0
    THEN Json(200, [trending |-> <<>>, hashtags |-> <<>>])
    ELSE LET items == Take(r.data.items.items, 10) IN
         IF \E i \in 1..Len(items) : VideoThrows(items[i])
         THEN trendingIndiaCatch(TypeError)
         ELSE Json(200, [trending |-> [i \in 1..Len(items) |-> trendingIndiaEntry(items[i])],
                         hashtags |-> getCategoryHashtags(categoryId)])

\* the fetch is sent; the handler awaits it
StartFetch ==
    /\ pc' = "fetch"
    /\ calls' = calls + 1
    /\ UNCHANGED <<loop, maxRetries, script, attempt, waits, ret, resp>>

RespondDirectly(r) ==
    /\ pc' = "done"
    /\ resp' = r
    /\ UNCHANGED <<loop, maxRetries, script, attempt, calls, waits, ret>>

TrendingIndiaPOST ==
    /\ pc = "received"
    /\ handler = "trending-india"
    /\ LET way == trendingIndiaPOSTEntry(body, env) IN
         CASE way = "catch" -> RespondDirectly(trendingIndiaCatch(DestructureError(body)))
           [] way = "no key" ->
                RespondDirectly(Json(500, ErrorBody("YouTube API key not configured")))
           [] OTHER -> StartFetch
    /\ UNCHANGED <<clientVars, env, handler, body, currentYear, upstream, tasks>>

TrendingIndiaFetched ==
    /\ pc = "fetch"
    /\ handler = "trending-india"
    /\ \E r \in VideoResponses :
         /\ upstream' = r
         /\ RespondDirectly(trendingIndiaFetched(r, body.field))
    /\ UNCHANGED <<clientVars, env, handler, body, currentYear, tasks>>

(*************************** trending, US **********************************)
\* title.toLowerCase().replace(/[^\w\s]/g, "").split(" ")
\*      .filter(word => word.length > 3).slice(0, 3).join(" ")
TitleKeywords(title) ==
    Join(Take(SelectSeq(SplitOn(StripPunctuation(ToLowerCase(title)), " "),
                        LAMBDA word : Len(word) > 3), 3), <<" ">>)

\* Number.parseInt(video.statistics.viewCount) || 0
ViewCountElseZero(viewCount) ==
    IF viewCount.type = "string" /\ ParseInt(viewCount.str) # NaN
    THEN ParseInt(viewCount.str) ELSE 0

\* Math.floor((viewCount / 1000) * (Math.random() * 0.5 + 0.5)), the random
\* number being k / RandomSteps
MockVolume(viewCount, k) ==
    LET d == 2000 * RandomSteps IN
    (viewCount \div d) * (k + RandomSteps) + ((viewCount % d) * (k + RandomSteps)) \div d

MinVolume == 1000
MaxVolume == 500000

\* the .map callback of the US handler
trendingUSEntry(video, k) ==
    LET title == video.snippet.title
        extracted == TitleKeywords(title)
        searchVolume == MockVolume(ViewCountElseZero(video.statistics.viewCount), k) IN
    [keyword |-> IF extracted # <<>> THEN extracted ELSE Take(title, 30),
     searchVolume |-> Max(MinVolume, Min(searchVolume, MaxVolume)),
     category |-> video.snippet.categoryId]

\* .filter((item, index, self) => index === self.findIndex(t => t.keyword === item.keyword))
UniqueByKeyword(list) ==
    LET keep == {i \in 1..Len(list) : \A j \in 1..(i - 1) : list[j].keyword # list[i].keyword}
        F[i \in 0..Len(list)] ==
            IF i = 0 THEN <<>>
            ELSE IF i \in keep THEN Append(F[i - 1], list[i]) ELSE F[i - 1] IN
    F[Len(list)]

\* .sort((a, b) => b.searchVolume - a.searchVolume): stable, descending
SortByVolume(list) ==
    LET Insert(sorted, x) ==
            LET n == Cardinality({i \in 1..Len(sorted) : sorted[i].searchVolume >= x.searchVolume})
            IN SubSeq(sorted, 1, n) \o <<x>> \o SubSeq(sorted, n + 1, Len(sorted))
        F[i \in 0..Len(list)] == IF i = 0 THEN <<>> ELSE Insert(F[i - 1], list[i]) IN
    F[Len(list)]

\* mutant: a failure is answered with an empty list
trendingUSCatch_EmptyList(error) == Json(200, [trending |-> <<>>])

trendingUSCatch(error) ==
    Json(500, FailureBody("Failed to fetch trending searches", error))

\* the handler up to the fetch: which way it leaves
trendingUSPOSTEntry(b, e) ==
    IF ~Destructures(b) THEN "catch"
    ELSE IF ~e.youtube THEN "no key"
    ELSE "call"

\* from the settled fetch to the response; draws[i] is the random number of item i
trendingUSFetched(r, draws) ==
    IF r.threw THEN trendingUSCatch(Err(0, <<"fetch", "failed">>))
    ELSE IF ~r.ok
    THEN trendingUSCatch(Err(0, <<"YouTube", "API", "returned", ToString(r.status), ":">>))
    ELSE IF ~r.parses THEN trendingUSCatch(SyntaxError)
    ELSE IF ReadsMissing(r.data) THEN trendingUSCatch(TypeError)
    ELSE IF ~Truthy(r.data.items) \/ Len(r.data.items.items) = 0
    THEN Json(200, [trending |-> <<>>])
    ELSE LET items == r.data.items.items IN
         IF \E i \in 1..Len(items) : VideoThrows(items[i])
         THEN trendingUSCatch(TypeError)
         ELSE LET trending == [i \in 1..Len(items) |-> trendingUSEntry(items[i], draws[i])]
              IN Json(200, [trending |-> Take(SortByVolume(UniqueByKeyword(trending)), 10)])

\* the number of random numbers the handler draws for an answer
DrawsFor(r) ==
    IF r.ok /\ r.parses /\ ~ReadsMissing(r.data) /\ Truthy(r.data.items)
    THEN Len(r.data.items.items) ELSE 0

\* the random numbers drawn for an answer: every sequence for a short list,
\* the cyclic sequences k, k + 1, ... for a long one
DrawSequences(r) ==
    IF DrawsFor(r) <= MaxItems
    THEN [1..DrawsFor(r) -> RandomDraws]
    ELSE {[i \in 1..DrawsFor(r) |-> (i + k) % RandomSteps] : k \in RandomDraws}

TrendingUSPOST ==
    /\ pc = "received"
    /\ handler = "trending-us"
    /\ LET way == trendingUSPOSTEntry(body, env) IN
         CASE way = "catch" -> RespondDirectly(trendingUSCatch(DestructureError(body)))
           [] way = "no key" ->
                RespondDirectly(Json(500, ErrorBody("YouTube API key not configured")))
           [] OTHER -> StartFetch
    /\ UNCHANGED <<clientVars, env, handler, body, currentYear, upstream, tasks>>

TrendingUSFetched ==
    /\ pc = "fetch"
    /\ handler = "trending-us"
    /\ \E r \in VideoResponses :
         \E draws \in DrawSequences(r) :
            /\ upstream' = r
            /\ RespondDirectly(trendingUSFetched(r, draws))
    /\ UNCHANGED <<clientVars, env, handler, body, currentYear, tasks>>


(***************************************************************************)
(* The search endpoint of the YouTube Data API.                            *)
(***************************************************************************)
SearchItem(videoId, title, publishedAt) ==
    [id |-> [type |-> "object", videoId |-> videoId],
     snippet |-> [type |-> "object", title |-> title, publishedAt |-> publishedAt]]
ItemNoSnippet == [id |-> [type |-> "object", videoId |-> 0], snippet |-> Undefined]
ItemNoId == [id |-> Undefined,
             snippet |-> [type |-> "object", title |-> <<"B", "G", "M", "I", " ", "g", "a", "m", "e", "p", "l", "a", "y", " ", "t", "i", "p", "s", " ", "f", "o", "r", " ", "b", "e", "g", "i", "n", "n", "e", "r", "s", " ", "2", "0", "2", "4">>, publishedAt |-> 0]]

\* titles the search answers with, in the order of relevance
SearchTitles ==
    <<<<"B", "G", "M", "I", " ", "B", "e", "s", "t", " ", "T", "i", "p", "s", " ", "a", "n", "d", " ", "T", "r", "i", "c", "k", "s", " ", "2", "0", "2", "4">>,
      <<"B", "G", "M", "I", " ", "g", "a", "m", "e", "p", "l", "a", "y", " ", "t", "i", "p", "s", " ", "f", "o", "r", " ", "b", "e", "g", "i", "n", "n", "e", "r", "s", " ", "2", "0", "2", "4">>,
      <<"T", "o", "p", " ", "1", "0", " ", "B", "G", "M", "I", " ", "g", "a", "m", "e", "p", "l", "a", "y", " ", "s", "e", "c", "r", "e", "t", "s", " ", "r", "e", "v", "e", "a", "l", "e", "d">>,
      <<"B", "G", "M", "I", " ", "t", "i", "p", "s">>,
      <<"I", "n", "s", "a", "n", "e", " ", "B", "G", "M", "I", " ", "g", "a", "m", "e", "p", "l", "a", "y", " ", "m", "o", "n", "t", "a", "g", "e", " ", "2", "0", "2", "4">>,
      <<"B", "G", "M", "I", " ", "B", "e", "s", "t", " ", "T", "i", "p", "s", " ", "a", "n", "d", " ", "T", "r", "i", "c", "k", "s", " ", "2", "0", "2", "4", " ", "H", "i", "n", "d", "i">>,
      <<"B", "G", "M", "I", " ", "2", "0", "2", "4", " ", "g", "a", "m", "e", "p", "l", "a", "y", " ", "g", "u", "i", "d", "e", " ", "f", "o", "r", " ", "n", "e", "w", " ", "p", "l", "a", "y", "e", "r", "s">>,
      <<"B", "e", "s", "t", " ", "s", "e", "n", "s", "i", "t", "i", "v", "i", "t", "y", " ", "s", "e", "t", "t", "i", "n", "g", "s", " ", "f", "o", "r", " ", "B", "G", "M", "I">>,
      <<"H", "o", "w", " ", "t", "o", " ", "r", "a", "n", "k", " ", "u", "p", " ", "f", "a", "s", "t", " ", "i", "n", " ", "B", "G", "M", "I">>,
      <<"B", "G", "M", "I", " ", "n", "e", "w", " ", "u", "p", "d", "a", "t", "e", " ", "f", "u", "l", "l", " ", "r", "e", "v", "i", "e", "w">>,
      <<"C", "o", "n", "q", "u", "e", "r", "o", "r", " ", "r", "a", "n", "k", " ", "p", "u", "s", "h", " ", "l", "i", "v", "e", " ", "s", "t", "r", "e", "a", "m">>,
      <<"T", "o", "p", " ", "5", " ", "g", "u", "n", "s", " ", "i", "n", " ", "B", "G", "M", "I", " ", "r", "a", "n", "k", "e", "d">>>>

\* a result whose title is that of TitleBGMI in capitals
TitleInCapitals ==
    SearchItem(0, <<"B", "G", "M", "I", " ", "B", "E", "S", "T", " ", "T", "I", "P", "S", " ", "A", "N", "D", " ", "T", "R", "I", "C", "K", "S", " ", "2", "0", "2", "4">>, 2)

\* the first n search results; result i was published on day i
SearchItems(n) == [i \in 1..n |-> SearchItem(i, SearchTitles[i], i)]

SearchListing(items, pageInfo) ==
    [type |-> "object", items |-> items, pageInfo |-> pageInfo]
PageInfo(totalResults) == [type |-> "object", totalResults |-> totalResults]

\* what the search endpoint can answer
SearchResponses ==
    {FetchRejects,
     Response(403, TRUE, SearchListing(Undefined, Undefined)),
     Response(200, FALSE, Null),
     Response(200, TRUE, Null),
     Response(200, TRUE, SearchListing(Undefined, PageInfo(0))),
     Response(200, TRUE, SearchListing(Arr(<<>>), PageInfo(0))),
     Response(200, TRUE, SearchListing(Arr(SearchItems(1)), PageInfo(12))),
     Response(200, TRUE, SearchListing(Arr(SearchItems(5)), PageInfo(15000))),
     Response(200, TRUE, SearchListing(Arr(SearchItems(6)), PageInfo(4000))),
     Response(200, TRUE, SearchListing(Arr(SearchItems(12)), Undefined)),
     Response(200, TRUE, SearchListing(Arr(SearchItems(12)), PageInfo(250))),
     Response(200, TRUE, SearchListing(Arr(<<SearchItem(1, SearchTitles[2], 1), ItemNoSnippet>>),
                                       PageInfo(2))),
     Response(200, TRUE, SearchListing(Arr(<<ItemNoId>>), PageInfo(1)))}

\* what the search for a title can answer: also with the title itself in
\* capitals before the other results
TitleSearchResponses ==
    SearchResponses
        \cup {Response(200, TRUE,
                       SearchListing(Arr(<<TitleInCapitals>> \o SearchItems(12)), PageInfo(13)))}

(*************************** analyze-title *********************************)
\* the elements of list whose index is in keep, in order
Keep(list, keep) ==
    LET F[i \in 0..Len(list)] ==
            IF i = 0 THEN <<>>
            ELSE IF i \in keep THEN Append(F[i - 1], list[i]) ELSE F[i - 1] IN
    F[Len(list)]

\* String.prototype.split(/\s+/): a run of blanks separates once; a leading or
\* trailing run leaves an empty string at that end
SplitWs(s) ==
    LET parts == SplitOn(s, " ") IN
    Keep(parts, {i \in 1..Len(parts) : parts[i] # <<>> \/ i = 1 \/ i = Len(parts)})

\* [...new Set(list)]: the first occurrence of each element, in order
Unique(list) ==
    Keep(list, {i \in 1..Len(list) : \A j \in 1..(i - 1) : list[j] # list[i]})

Contains(list, x) == \E i \in 1..Len(list) : list[i] = x

\* commonWords.length / Math.max(words1.length, words2.length) as a fraction
calculateSimilarity(str1, str2) ==
    LET words1 == SplitWs(str1)
        words2 == SplitWs(str2)
        commonWords == SelectSeq(words1, LAMBDA word : Contains(words2, word)) IN
    [num |-> Len(commonWords), den |-> Max(Len(words1), Len(words2))]

commonHashtags ==
    <<<<"#", "v", "i", "r", "a", "l">>,
      <<"#", "t", "r", "e", "n", "d", "i", "n", "g">>,
      <<"#", "y", "o", "u", "t", "u", "b", "e">>,
      <<"#", "s", "h", "o", "r", "t", "s">>,
      <<"#", "f", "y", "p">>,
      <<"#", "s", "u", "b", "s", "c", "r", "i", "b", "e">>,
      <<"#", "l", "i", "k", "e">>,
      <<"#", "s", "h", "a", "r", "e">>>>
gamingKeywords ==
    <<<<"b", "g", "m", "i">>,
      <<"g", "a", "m", "i", "n", "g">>,
      <<"g", "a", "m", "e">>,
      <<"p", "u", "b", "g">>,
      <<"m", "o", "b", "i", "l", "e">>,
      <<"t", "i", "p", "s">>,
      <<"t", "r", "i", "c", "k", "s">>,
      <<"g", "a", "m", "e", "p", "l", "a", "y">>>>
gamingTags ==
    <<<<"#", "g", "a", "m", "i", "n", "g">>,
      <<"#", "m", "o", "b", "i", "l", "e", "g", "a", "m", "i", "n", "g">>,
      <<"#", "b", "g", "m", "i">>,
      <<"#", "p", "u", "b", "g", "m", "o", "b", "i", "l", "e">>,
      <<"#", "g", "a", "m", "i", "n", "g", "c", "o", "m", "m", "u", "n", "i", "t", "y">>,
      <<"#", "e", "s", "p", "o", "r", "t", "s">>>>
musicKeywords ==
    <<<<"s", "o", "n", "g">>,
      <<"m", "u", "s", "i", "c">>,
      <<"c", "o", "v", "e", "r">>,
      <<"r", "e", "m", "i", "x">>,
      <<"b", "e", "a", "t">>,
      <<"l", "y", "r", "i", "c", "s">>>>
musicTags ==
    <<<<"#", "m", "u", "s", "i", "c">>,
      <<"#", "s", "o", "n", "g">>,
      <<"#", "c", "o", "v", "e", "r">>,
      <<"#", "r", "e", "m", "i", "x">>,
      <<"#", "m", "u", "s", "i", "c", "i", "a", "n">>,
      <<"#", "n", "e", "w", "m", "u", "s", "i", "c">>>>

\* titleKeywords.some(tag => list.some(keyword => tag.includes(keyword)))
SomeTagIncludes(tags, list) ==
    \E i \in 1..Len(tags) : \E j \in 1..Len(list) : Includes(tags[i], list[j])

generateTrendingHashtags(title) ==
    LET words == SelectSeq(SplitWs(StripPunctuation(ToLowerCase(title))),
                           LAMBDA word : Len(word) > 2)
        titleKeywords == [i \in 1..Len(words) |-> <<"#">> \o words[i]]
        gamingHashtags == IF SomeTagIncludes(titleKeywords, gamingKeywords) THEN gamingTags ELSE <<>>
        musicHashtags == IF SomeTagIncludes(titleKeywords, musicKeywords) THEN musicTags ELSE <<>>
        allHashtags == Take(titleKeywords, 3) \o gamingHashtags \o musicHashtags \o commonHashtags
    IN Take(Unique(allHashtags), 12)

emotionalWords ==
    <<<<"a", "m", "a", "z", "i", "n", "g">>,
      <<"i", "n", "c", "r", "e", "d", "i", "b", "l", "e">>,
      <<"s", "h", "o", "c", "k", "i", "n", "g">>,
      <<"u", "n", "b", "e", "l", "i", "e", "v", "a", "b", "l", "e">>,
      <<"e", "p", "i", "c">>,
      <<"i", "n", "s", "a", "n", "e">>,
      <<"c", "r", "a", "z", "y">>>>

\* a property name that Object.entries lists before the others, in ascending
\* numeric order: a canonical array index (up to nine digits here)
IsArrayIndex(word) ==
    /\ word # <<>>
    /\ Len(word) <= 9
    /\ \A i \in 1..Len(word) : word[i] \in Digits
    /\ (Len(word) = 1 \/ word[1] # "0")

\* ascending stable sort of index-like property names by their number
SortIndices(list) ==
    LET Insert(sorted, x) ==
            LET n == Cardinality({i \in 1..Len(sorted) : ParseInt(sorted[i]) <= ParseInt(x)})
            IN SubSeq(sorted, 1, n) \o <<x>> \o SubSeq(sorted, n + 1, Len(sorted))
        F[i \in 0..Len(list)] == IF i = 0 THEN <<>> ELSE Insert(F[i - 1], list[i]) IN
    F[Len(list)]

\* the keys of wordCount in the order Object.entries yields them
OwnKeys(words) ==
    LET keys == Unique(words) IN
    SortIndices(SelectSeq(keys, IsArrayIndex))
        \o SelectSeq(keys, LAMBDA word : ~IsArrayIndex(word))

Suggestion(text) == [text |-> text, words |-> <<>>]

generateOptimizationSuggestions(title, relatedTitles) ==
    LET length ==
            IF Len(title) < 30
            THEN <<Suggestion("Consider making your title longer (30-60 characters) for better SEO")>>
            ELSE IF Len(title) > 100
            THEN <<Suggestion("Your title might be too long. Consider shortening it to under 60 characters")>>
            ELSE <<>>
        numbers ==
            IF ~\E i \in 1..Len(title) : title[i] \in Digits
            THEN <<Suggestion("Adding numbers (like '2024', 'Top 10', '5 Tips') can increase click-through rates")>>
            ELSE <<>>
        emotional ==
            IF CountIncluded(emotionalWords, ToLowerCase(title)) = 0
            THEN <<Suggestion("Consider adding emotional words like 'Amazing', 'Epic', or 'Incredible' to boost engagement")>>
            ELSE <<>>
        commonWords == SelectSeq(SplitWs(ToLowerCase(Join(relatedTitles, <<" ">>))),
                                 LAMBDA word : Len(word) > 3)
        Count(word) == Cardinality({i \in 1..Len(commonWords) : commonWords[i] = word})
        trendingWordsFound == Take(SelectSeq(OwnKeys(commonWords), LAMBDA word : Count(word) >= 3), 3)
        trending ==
            IF Len(trendingWordsFound) > 0
            THEN <<[text |-> "Trending words in your niche: ${trendingWords.join(\", \")}. Consider incorporating them.",
                    words |-> trendingWordsFound]>>
            ELSE <<>>
    IN Take(length \o numbers \o emotional \o trending, 4)

\* mutant: the catch block lets the error leave the handler
analyzeTitleCatch_Rethrows(error) == Unhandled(error)

\* catch (error)
analyzeTitleCatch(error) == Json(500, FailureBody("Failed to analyze title", error))

\* mutant: the credential is looked at before the title
analyzeTitleEntry_KeyFirst(b, e) ==
    IF ~Destructures(b) THEN "catch"
    ELSE IF ~e.youtube THEN "no key"
    ELSE IF ~Truthy(b.field) THEN "400"
    ELSE IF b.field.type # "string" THEN "not a string"
    ELSE "call"

\* the handler up to the fetch: which way it leaves
analyzeTitleEntry(b, e) ==
    IF ~Destructures(b) THEN "catch"
    ELSE IF ~Truthy(b.field) THEN "400"
    ELSE IF ~e.youtube THEN "no key"
    ELSE IF b.field.type # "string" THEN "not a string"
    ELSE "call"

\* mutant: only the length is looked at
IsRelated_LengthOnly(title, videoTitle) == Len(videoTitle) > 20

\* similarity < 0.7 && videoTitle.length > 20
IsRelated(title, videoTitle) ==
    LET similarity == calculateSimilarity(ToLowerCase(title), ToLowerCase(videoTitle)) IN
    /\ 10 * similarity.num < 7 * similarity.den
    /\ Len(videoTitle) > 20

\* from the settled search to the response
analyzeTitleFetched(r, title) ==
    IF r.threw THEN analyzeTitleCatch(Err(0, <<"fetch", "failed">>))
    ELSE IF ~r.ok
    THEN analyzeTitleCatch(Err(0, <<"Failed", "to", "fetch", "related", "videos">>))
    ELSE IF ~r.parses THEN analyzeTitleCatch(SyntaxError)
    ELSE IF ReadsMissing(r.data) THEN analyzeTitleCatch(TypeError)
    ELSE LET videos == IF Truthy(r.data.items) THEN r.data.items.items ELSE <<>> IN
         IF \E i \in 1..Len(videos) : ReadsMissing(videos[i].snippet)
         THEN analyzeTitleCatch(TypeError)
         ELSE LET titles == [i \in 1..Len(videos) |-> videos[i].snippet.title]
                  relatedTitles ==
                      Take(SelectSeq(titles, LAMBDA videoTitle : IsRelated(title, videoTitle)), 8)
              IN Json(200, [relatedTitles |-> relatedTitles,
                            hashtags |-> generateTrendingHashtags(title),
                            suggestions |-> generateOptimizationSuggestions(title, relatedTitles)])

AnalyzeTitlePOST ==
    /\ pc = "received"
    /\ handler = "analyze-title"
    /\ LET way == analyzeTitleEntry(body, env) IN
         CASE way = "catch" -> RespondDirectly(analyzeTitleCatch(DestructureError(body)))
           [] way = "400" -> RespondDirectly(Json(400, ErrorBody("Title is required")))
           [] way = "no key" ->
                RespondDirectly(Json(500, ErrorBody("YouTube API key not configured")))
           [] way = "not a string" -> RespondDirectly(analyzeTitleCatch(TypeError))
           [] OTHER -> StartFetch
    /\ UNCHANGED <<clientVars, env, handler, body, currentYear, upstream, tasks>>

AnalyzeTitleFetched ==
    /\ pc = "fetch"
    /\ handler = "analyze-title"
    /\ \E r \in TitleSearchResponses :
         /\ upstream' = r
         /\ RespondDirectly(analyzeTitleFetched(r, body.field.str))
    /\ UNCHANGED <<clientVars, env, handler, body, currentYear, tasks>>

(*************************** keyword research ******************************)
\* the decimal digits of a natural number
RECURSIVE NumberText(_)
NumberText(n) == IF n < 10 THEN <<ToString(n)>> ELSE NumberText(n \div 10) \o <<ToString(n % 10)>>

\* `${seed}` in a template literal
SeedText(seed) ==
    CASE seed.type = "string" -> seed.str
      [] seed.type = "number" -> NumberText(seed.num)
      [] OTHER -> <<>>

generateRelatedKeywords(seed) ==
    LET t == SeedText(seed)
        variations ==
            <<seed,
              Str(t \o <<" ", "t", "u", "t", "o", "r", "i", "a", "l">>),
              Str(t \o <<" ", "t", "i", "p", "s">>),
              Str(t \o <<" ", "g", "u", "i", "d", "e">>),
              Str(t \o <<" ", "r", "e", "v", "i", "e", "w">>),
              Str(t \o <<" ", "2", "0", "2", "4">>),
              Str(t \o <<" ", "f", "o", "r", " ", "b", "e", "g", "i", "n", "n", "e", "r", "s">>),
              Str(t \o <<" ", "a", "d", "v", "a", "n", "c", "e", "d">>),
              Str(<<"h", "o", "w", " ", "t", "o", " ">> \o t),
              Str(<<"b", "e", "s", "t", " ">> \o t),
              Str(t \o <<" ", "e", "x", "p", "l", "a", "i", "n", "e", "d">>),
              Str(t \o <<" ", "s", "e", "c", "r", "e", "t", "s">>),
              Str(t \o <<" ", "m", "i", "s", "t", "a", "k", "e", "s">>),
              Str(t \o <<" ", "v", "s">>),
              Str(t \o <<" ", "c", "o", "m", "p", "a", "r", "i", "s", "o", "n">>)>>
    IN Take(variations, 10)

\* the statistics endpoint's items
Counted(viewCount) == [statistics |-> Statistics(viewCount)]
StatsResponses ==
    {FetchRejects,
     Response(403, TRUE, Listing(Undefined)),
     Response(200, FALSE, Null),
     Response(200, TRUE, Listing(Arr(<<>>))),
     Response(200, TRUE, Listing(Arr(<<Counted(Str(<<"1", "0", "0", "0">>)),
                                        Counted(Str(<<"2", "5", "0", "1">>)),
                                        Counted(Undefined)>>))),
     Response(200, TRUE, Listing(Arr(<<Counted(Str(<<"9", "0", "0", "0", "0", "0", "0">>))>>))),
     Response(200, TRUE, Listing(Arr(<<[statistics |-> Undefined]>>)))}

RECURSIVE TotalViews(_)
\* videos.reduce((sum, video) => sum + Number.parseInt(video.statistics.viewCount || "0"), 0)
TotalViews(videos) ==
    IF videos = <<>> THEN 0
    ELSE ViewCountOrZero(videos[1].statistics.viewCount) + TotalViews(Tail(videos))

calculateAverageViews(videos) ==
    IF Len(videos) = 0 THEN 0 ELSE TotalViews(videos) \div Len(videos)

\* Math.min(Math.floor(baseScore + recencyBonus), 100), computed in hundredths
calculateCompetitionScore(totalVideos, recentVideos) ==
    LET baseScore == Min(totalVideos, 10000)
        recentUploads == Len(recentVideos)
        recencyBonus == Min(recentUploads * 40, 2000) IN
    Min((baseScore + recencyBonus) \div 100, 100)

\* videos.sort((a, b) => new Date(b.snippet.publishedAt).getTime()
\*                        - new Date(a.snippet.publishedAt).getTime()): stable, newest first
SortNewestFirst(videos) ==
    LET Insert(sorted, x) ==
            LET n == Cardinality({i \in 1..Len(sorted) :
                                     sorted[i].snippet.publishedAt >= x.snippet.publishedAt})
            IN SubSeq(sorted, 1, n) \o <<x>> \o SubSeq(sorted, n + 1, Len(sorted))
        F[i \in 0..Len(videos)] == IF i = 0 THEN <<>> ELSE Insert(F[i - 1], videos[i]) IN
    F[Len(videos)]

\* mutant: the newer half is the videos published after the middle day of
\* the result set
calculateTrendDirection_SplitsByDate(videos) ==
    IF Len(videos) < 5 THEN "stable"
    ELSE LET sortedVideos == SortNewestFirst(videos)
             middle == sortedVideos[(Len(videos) + 1) \div 2].snippet.publishedAt
             recentVideos == SelectSeq(sortedVideos, LAMBDA v : v.snippet.publishedAt > middle)
             olderVideos == SelectSeq(sortedVideos, LAMBDA v : v.snippet.publishedAt <= middle)
         IN
         IF 10 * Len(recentVideos) > 15 * Len(olderVideos) THEN "up"
         ELSE IF 10 * Len(recentVideos) < 7 * Len(olderVideos) THEN "down"
         ELSE "stable"

\* the comparisons with 1.5 and 0.7 times a length are made in tenths
calculateTrendDirection(videos) ==
    IF Len(videos) < 5 THEN "stable"
    ELSE LET sortedVideos == SortNewestFirst(videos)
             recentVideos == SubSeq(sortedVideos, 1, Len(videos) \div 2)
             olderVideos == SubSeq(sortedVideos, Len(videos) \div 2 + 1, Len(videos))
         IN
         IF 10 * Len(recentVideos) > 15 * Len(olderVideos) THEN "up"
         ELSE IF 10 * Len(recentVideos) < 7 * Len(olderVideos) THEN "down"
         ELSE "stable"

MaxSearchVolume == 1000000

\* the state of one variation's analysis
SearchPending == [step |-> "search", search |-> Null, result |-> Null]
StatsPending(searchData) == [step |-> "stats", search |-> searchData, result |-> Null]
Analysed(result) == [step |-> "done", search |-> Null, result |-> result]

\* the analysis of one variation from its settled search to its statistics
\* fetch: TRUE when the statistics are fetched, FALSE when the result is null
keywordSearched(r) ==
    /\ ~r.threw
    /\ r.ok
    /\ r.parses
    /\ ~ReadsMissing(r.data)
    /\ Truthy(r.data.items)
    /\ Len(r.data.items.items) # 0
    /\ LET first == Take(r.data.items.items, 10) IN
       \A i \in 1..Len(first) : ~ReadsMissing(first[i].id)

\* the analysis of one variation from its settled statistics fetch to its result
keywordAnalysed(kw, searchData, r) ==
    IF r.threw \/ ~r.parses THEN Null
    ELSE IF ReadsMissing(searchData.pageInfo) THEN Null
    ELSE IF ReadsMissing(r.data) \/ ReadsMissing(r.data.items) THEN Null
    ELSE IF \E i \in 1..Len(r.data.items.items) : ReadsMissing(r.data.items.items[i].statistics)
    THEN Null
    ELSE IF /\ Len(searchData.items.items) >= 5
            /\ \E i \in 1..Len(searchData.items.items) :
                   ReadsMissing(searchData.items.items[i].snippet)
    THEN Null
    ELSE LET totalVideos == searchData.pageInfo.totalResults
             avgViews == calculateAverageViews(r.data.items.items)
         IN [type |-> "object",
             keyword |-> kw,
             searchVolume |-> Min(avgViews * 10, MaxSearchVolume),
             competitionScore |-> calculateCompetitionScore(totalVideos, searchData.items.items),
             trendDirection |-> calculateTrendDirection(searchData.items.items),
             videoCount |-> totalVideos,
             avgViews |-> avgViews]

\* .sort((a, b) => b.searchVolume / (b.competitionScore + 1)
\*                 - a.searchVolume / (a.competitionScore + 1)): stable, descending
SortByOpportunity(list) ==
    LET NotBelow(a, x) ==
            a.searchVolume * (x.competitionScore + 1) >= x.searchVolume * (a.competitionScore + 1)
        Insert(sorted, x) ==
            LET n == Cardinality({i \in 1..Len(sorted) : NotBelow(sorted[i], x)})
            IN SubSeq(sorted, 1, n) \o <<x>> \o SubSeq(sorted, n + 1, Len(sorted))
        F[i \in 0..Len(list)] == IF i = 0 THEN <<>> ELSE Insert(F[i - 1], list[i]) IN
    F[Len(list)]

\* mutant: one null result empties the list
validResults_AllOrNothing(keywordAnalysis) ==
    IF \E i \in 1..Len(keywordAnalysis) : keywordAnalysis[i] = Null THEN <<>>
    ELSE SortByOpportunity(keywordAnalysis)

\* keywordAnalysis.filter(result => result !== null).sort(...)
validResults(keywordAnalysis) ==
    SortByOpportunity(SelectSeq(keywordAnalysis, LAMBDA result : result # Null))

\* the number of variations analysed
MaxVariations == 2
relatedKeywords == Take(generateRelatedKeywords(body.field), MaxVariations)

\* the handler up to Promise.all: which way it leaves
keywordResearchEntry(b, e) ==
    IF ~Destructures(b) THEN "catch"
    ELSE IF ~Truthy(b.field) THEN "400"
    ELSE IF ~e.youtube THEN "no key"
    ELSE "call"

KeywordResearchPOST ==
    /\ pc = "received"
    /\ handler = "keyword-research"
    /\ LET way == keywordResearchEntry(body, env) IN
         CASE way = "catch" ->
                RespondDirectly(Json(500, ErrorBody("Failed to analyze keywords")))
                    /\ UNCHANGED tasks
           [] way = "400" ->
                RespondDirectly(Json(400, ErrorBody("Keyword is required")))
                    /\ UNCHANGED tasks
           [] way = "no key" ->
                RespondDirectly(Json(500, ErrorBody("YouTube API key not configured")))
                    /\ UNCHANGED tasks
           [] OTHER ->
                /\ pc' = "analysis"
                /\ tasks' = [i \in 1..Len(relatedKeywords) |-> SearchPending]
                /\ calls' = calls + Len(relatedKeywords)
                /\ UNCHANGED <<loop, maxRetries, script, attempt, waits, ret, resp>>
    /\ UNCHANGED <<clientVars, env, handler, body, currentYear, upstream>>

\* the search of one variation settles
KeywordSearched ==
    /\ pc = "analysis"
    /\ \E i \in 1..Len(tasks) :
         /\ tasks[i].step = "search"
         /\ \E r \in SearchResponses :
              /\ tasks' = [tasks EXCEPT ![i] = IF keywordSearched(r)
                                                THEN StatsPending(r.data)
                                                ELSE Analysed(Null)]
              /\ calls' = IF keywordSearched(r) THEN calls + 1 ELSE calls
              /\ upstream' = r
    /\ UNCHANGED <<clientVars, env, pc, handler, body, currentYear, loop, maxRetries, script,
                   attempt, waits, ret, resp>>

\* the statistics fetch of one variation settles
KeywordAnalysed ==
    /\ pc = "analysis"
    /\ \E i \in 1..Len(tasks) :
         /\ tasks[i].step = "stats"
         /\ \E r \in StatsResponses :
              /\ tasks' = [tasks EXCEPT ![i] =
                           Analysed(keywordAnalysed(relatedKeywords[i], tasks[i].search, r))]
              /\ upstream' = r
    /\ UNCHANGED <<clientVars, env, pc, handler, body, currentYear, loop, maxRetries, script,
                   attempt, calls, waits, ret, resp>>

\* Promise.all resolves
KeywordResearchRespond ==
    /\ pc = "analysis"
    /\ \A i \in 1..Len(tasks) : tasks[i].step = "done"
    /\ RespondDirectly(Json(200, [keywords |->
           validResults([i \in 1..Len(tasks) |-> tasks[i].result])]))
    /\ UNCHANGED <<clientVars, env, handler, body, currentYear, upstream, tasks>>


(***************************************************************************)
(* src/lib/csv-utils.ts: numbers and strings are put into the line as      *)
(* Number.prototype.toString and the template literal give them.           *)
(***************************************************************************)
headers ==
    <<<<"K", "e", "y", "w", "o", "r", "d">>,
      <<"S", "e", "a", "r", "c", "h", " ", "V", "o", "l", "u", "m", "e">>,
      <<"C", "o", "m", "p", "e", "t", "i", "t", "i", "o", "n", " ", "S", "c", "o", "r", "e", " ", "(", "%", ")">>,
      <<"T", "r", "e", "n", "d", " ", "D", "i", "r", "e", "c", "t", "i", "o", "n">>,
      <<"V", "i", "d", "e", "o", " ", "C", "o", "u", "n", "t">>,
      <<"A", "v", "e", "r", "a", "g", "e", " ", "V", "i", "e", "w", "s">>>>

\* the .map callback of generateCSV
CsvRow(row) ==
    Join(<<<<"\"">> \o row.keyword \o <<"\"">>,
           NumberText(row.searchVolume),
           NumberText(row.competitionScore),
           <<"\"">> \o row.trendDirection \o <<"\"">>,
           NumberText(row.videoCount),
           NumberText(row.avgViews)>>, <<",">>)

\* mutant: the keyword is put in without quotes
generateCSV_BareKeyword(data) ==
    Join(<<Join(headers, <<",">>)>>
             \o [i \in 1..Len(data) |->
                    Join(<<data[i].keyword,
                           NumberText(data[i].searchVolume),
                           NumberText(data[i].competitionScore),
                           <<"\"">> \o data[i].trendDirection \o <<"\"">>,
                           NumberText(data[i].videoCount),
                           NumberText(data[i].avgViews)>>, <<",">>)],
         <<"\n">>)

\* the content generateCSV hands to downloadCSV
generateCSV(data) ==
    Join(<<Join(headers, <<",">>)>> \o [i \in 1..Len(data) |-> CsvRow(data[i])], <<"\n">>)

(***************************************************************************)
(* calculateTrendDirection and generateCSV called directly.                *)
(***************************************************************************)
MaxVideos == 7
\* the days the videos of a result set were published on
Days == {1, 2, 3}
TrendInputs ==
    UNION {{[i \in 1..n |-> SearchItem(i, <<"v">>, days[i])] : days \in [1..n -> Days]} :
              n \in 0..MaxVideos}

MaxRecords == 2
CsvKeywords ==
    {<<"c", "a", "t", "s">>,
     <<"c", "a", "t", "s", ",", " ", "d", "o", "g", "s">>,
     <<"s", "a", "y", " ", "\"", "h", "i", "\"">>,
     <<"t", "w", "o", "\n", "l", "i", "n", "e", "s">>}
CsvRecords ==
    [keyword : CsvKeywords, searchVolume : {0, 100}, competitionScore : {20},
     trendDirection : {<<"u", "p">>, <<"d", "o", "w", "n">>, <<"s", "t", "a", "b", "l", "e">>},
     videoCount : {500}, avgViews : {50}]
CsvInputs == UNION {[1..n -> CsvRecords] : n \in 0..MaxRecords}

\* calculateTrendDirection(videos) is called
TrendDirectly ==
    /\ pc = "idle"
    /\ \E videos \in TrendInputs :
         /\ body' = [parse |-> "object", field |-> Arr(videos)]
         /\ ret' = Returned(calculateTrendDirection(videos))
    /\ handler' = "direct"
    /\ loop' = "calculateTrendDirection"
    /\ pc' = "returned"
    /\ UNCHANGED <<clientVars, env, currentYear, maxRetries, script, attempt, calls, waits, upstream,
                   tasks, resp>>

\* generateCSV(data, filename) is called; what it returns here is the content
\* it passes on
GenerateCSVDirectly ==
    /\ pc = "idle"
    /\ \E data \in CsvInputs :
         /\ body' = [parse |-> "object", field |-> Arr(data)]
         /\ ret' = Returned(generateCSV(data))
    /\ handler' = "direct"
    /\ loop' = "generateCSV"
    /\ pc' = "returned"
    /\ UNCHANGED <<clientVars, env, currentYear, maxRetries, script, attempt, calls, waits, upstream,
                   tasks, resp>>

NextPure == TrendDirectly \/ GenerateCSVDirectly

SpecPure == InitRetry /\ [][NextPure]_vars

(*************************** the server ************************************)
YouTubeHandlers == {"analyze-title", "keyword-research", "trending-india", "trending-us"}
Handlers == AIHandlers \cup YouTubeHandlers

\* the request bodies an endpoint is exercised with
BodiesOf(h) ==
    IF h \in {"trending-india", "trending-us"}
    THEN {BodyMalformed, BodyNull} \cup {BodyWith(v) : v \in CategoryValues}
    ELSE Bodies

\* the YouTube handlers read neither OPENAI_API_KEY nor the clock: they are
\* exercised under one setting of the two
Request ==
    /\ pc = "idle"
    /\ \E h \in Handlers :
         /\ handler' = h
         /\ body' \in BodiesOf(h)
         /\ h \in YouTubeHandlers => env.openai /\ currentYear = <<"2", "0", "2", "4">>
    /\ pc' = "received"
    /\ UNCHANGED <<clientVars, env, currentYear, upstream, tasks, loop, maxRetries, script, attempt, calls,
                   waits, ret, resp>>

Init ==
    /\ NotMounted
    /\ env \in [openai : BOOLEAN, youtube : BOOLEAN]
    /\ pc = "idle"
    /\ handler = "none"
    /\ body = NoBody
    /\ currentYear \in Years
    /\ loop = "none"
    /\ maxRetries = DefaultMaxRetries
    /\ script = <<>>
    /\ attempt = 0
    /\ calls = 0
    /\ waits = <<>>
    /\ ret = NoRet
    /\ upstream = NoFetch
    /\ tasks = <<>>
    /\ resp = NoResp

Next ==
    \/ Request
    \/ ScoreTitlePOST \/ ScoreTitleResume
    \/ RewriteTitlesPOST \/ RewriteTitlesResume
    \/ GenerateContentPOST \/ GenerateContentResume
    \/ retryWithBackoff \/ makeOpenAIRequest \/ rewriteTitlesWithAI \/ Timeout
    \/ AnalyzeTitlePOST \/ AnalyzeTitleFetched
    \/ KeywordResearchPOST \/ KeywordSearched \/ KeywordAnalysed \/ KeywordResearchRespond
    \/ TrendingIndiaPOST \/ TrendingIndiaFetched
    \/ TrendingUSPOST \/ TrendingUSFetched

Spec == Init /\ [][Next]_vars

(***************************************************************************)
(* Properties.                                                             *)
(***************************************************************************)
Done == pc = "done"
Has(r, f) == f \in DOMAIN r
\* a remote call was started by the handler (after validation and key check)
Called == loop # "none"
SubmittedTitle == body.field.str

\* the remote call fails with a rate-limit signal on every attempt
AllRateLimited ==
    /\ Called
    /\ maxRetries >= 1
    /\ Len(script) = maxRetries
    /\ \A i \in 1..maxRetries : ~script[i].ok /\ script[i].status = 429

QuotaSignal(o) ==
    /\ ~o.ok
    /\ \/ o.status = 402
       \/ o.isError /\ (Includes(o.message, <<"quota">>) \/ Includes(o.message, <<"billing">>))

\* a failure that is neither a rate-limit nor a quota/billing signal
OtherFailure(o) == ~o.ok /\ o.status # 429 /\ ~QuotaSignal(o)

FlaggedFallbackScores ==
    {WithFallbackUsed(calculateFallbackScore(SubmittedTitle, currentYear), m) :
        m \in {"AI analysis unavailable due to quota limits. Using rule-based scoring.",
               "AI analysis temporarily unavailable. Using rule-based scoring."}}

TemplateRewrites(title) ==
    {generateFallbackRewrites(title, r1, r2) : r1 \in RandomDraws, r2 \in RandomDraws}

IsRateLimitResponse(r) ==
    /\ r.status = 429
    /\ Has(r.body, "error")
    /\ Has(r.body, "type")
    /\ r.body.type = "rate_limit"

IsFlaggedRewriteFallback(r) ==
    /\ r.status = 200
    /\ Has(r.body, "fallbackUsed") /\ r.body.fallbackUsed = TRUE
    /\ Has(r.body, "message") /\ r.body.message # ""
    /\ r.body.rewrittenTitles \in TemplateRewrites(SubmittedTitle)

IsGenericError(r) ==
    /\ r.status = 500
    /\ Has(r.body, "error")
    /\ ~Has(r.body, "type")

C2_QuotaFallsBackFlagged ==
    (/\ Done /\ handler \in {"score-title", "rewrite-titles"} /\ Called
     /\ Len(script) >= 1 /\ QuotaSignal(script[1])) =>
        /\ calls = 1
        /\ resp.status = 200
        /\ Has(resp.body, "fallbackUsed") /\ resp.body.fallbackUsed = TRUE
        /\ Has(resp.body, "message") /\ resp.body.message # ""
        /\ handler = "score-title" => resp.body \in FlaggedFallbackScores
        /\ handler = "rewrite-titles" =>
               resp.body.rewrittenTitles \in TemplateRewrites(SubmittedTitle)

\* C3 as stated: when the remote call keeps failing with an error that is
\* neither a rate-limit nor a quota/billing signal, each AI-backed handler
\* answers HTTP 500 with a generic error body.
C3_AllHandlersSurface500 ==
    (/\ Done /\ handler \in AIHandlers /\ Called
     /\ \A i \in 1..Len(script) : OtherFailure(script[i])) => IsGenericError(resp)

\* C3 amended: under such a persisting failure rewrite-titles (after
\* maxRetries attempts) and generate-content (after one attempt) answer
\* HTTP 500 with a generic error body, while score-title (after one attempt)
\* answers HTTP 200 with the plain heuristic score of the submitted title.
C3_OtherErrorOutcome ==
    (/\ Done /\ handler \in AIHandlers /\ Called
     /\ \A i \in 1..Len(script) : OtherFailure(script[i])) =>
        /\ handler = "rewrite-titles" => IsGenericError(resp) /\ calls = maxRetries
        /\ handler = "generate-content" => IsGenericError(resp) /\ calls = 1
        /\ handler = "score-title" =>
               /\ resp = Json(200, calculateFallbackScore(SubmittedTitle, currentYear))
               /\ calls = 1

C3_Witness ==
    /\ Done /\ handler = "rewrite-titles" /\ Called
    /\ \A i \in 1..Len(script) : script[i] = ServerError
    /\ calls = 3 /\ resp.status = 500

\* C4: with no OpenAI credential and a valid title, score-title and
\* rewrite-titles make no remote call and answer HTTP 200 with the local
\* result: the heuristic score of the title, respectively five template
\* rewrites of it.
C4_NoKeyLocalResult ==
    (/\ pc # "idle" /\ pc # "received"
     /\ handler \in {"score-title", "rewrite-titles"}
     /\ ~env.openai /\ Destructures(body) /\ ValidTitle(body.field)) =>
        /\ Done /\ calls = 0 /\ ~Called
        /\ resp.status = 200
        /\ handler = "score-title" =>
               resp.body = calculateFallbackScore(SubmittedTitle, currentYear)
        /\ handler = "rewrite-titles" =>
               /\ resp.body.rewrittenTitles \in TemplateRewrites(SubmittedTitle)
               /\ Len(resp.body.rewrittenTitles) = 5

C4_Witness ==
    /\ Done /\ handler = "rewrite-titles" /\ ~env.openai
    /\ body = BodyWith(Str(TitleShort))
    /\ resp.status = 200 /\ calls = 0

\* the reply lacks one of the keys overall, breakdown, improvements, strengths
LacksKey(v) ==
    \/ v.type # "object"
    \/ v.overall.type = "undefined"
    \/ v.breakdown.type = "undefined"
    \/ v.improvements.type = "undefined"
    \/ v.strengths.type = "undefined"

\* C5 as stated: in score-title a reply that is not parseable JSON, or whose
\* parsed object lacks one of overall, breakdown, improvements, strengths,
\* is answered HTTP 200 with exactly the heuristic score of the submitted
\* title; in generate-content a reply whose content is not parseable JSON is
\* answered HTTP 200 with the template titles and description.
C5_UnusableReplyFallsBack ==
    /\ (/\ Done /\ handler = "score-title" /\ ret.kind = "value"
        /\ (~ret.value.parses \/ LacksKey(ret.value.value))) =>
           resp = Json(200, calculateFallbackScore(SubmittedTitle, currentYear))
    /\ (/\ Done /\ handler = "generate-content" /\ ret.kind = "value"
        /\ ret.value.jsonOk /\ ret.value.hasChoices
        /\ ret.value.content.type = "string" /\ ~ret.value.content.parses) =>
           /\ resp.status = 200
           /\ body.field.type = "string" => resp.body = ContentTemplate(body.field.str)

\* the handler has sent a response: an HTTP status and a JSON body
IsJsonResponse(r) ==
    /\ r.status \in {200, 400, 429, 500}
    /\ ~Has(r.body, "pending")
    /\ ~Has(r.body, "unhandled")

\* C6: every handler, on every execution path (malformed body, upstream
\* exception, unexpected upstream payload, missing configuration), ends with
\* one structured JSON response: whenever a handler has finished, what it
\* produced is a response with an HTTP status and a JSON body, never an
\* exception that left the handler; a failure status carries an error field.
C6_AlwaysJsonResponse ==
    /\ Done => /\ IsJsonResponse(resp)
               /\ resp.status >= 400 => Has(resp.body, "error")
    /\ ~Done => resp = NoResp

C6_Witness ==
    /\ Done
    /\ handler = "trending-us"
    /\ upstream = FetchRejects
    /\ IsJsonResponse(resp)
    /\ resp.status = 500

\* the endpoints with a required input field
FieldHandlers ==
    {"analyze-title", "score-title", "rewrite-titles", "keyword-research", "generate-content"}

\* the request body is a JSON object whose required field is absent or empty
FieldAbsentOrEmpty ==
    /\ Destructures(body)
    /\ body.field \in {Undefined, Str(<<>>)}

\* C7: on each endpoint with a required input field, a request whose field
\* is absent or empty is answered HTTP 400 with an error field, whether the
\* credentials are configured or not, and no outbound call is ever made for it.
C7_MissingFieldIs400 ==
    (handler \in FieldHandlers /\ FieldAbsentOrEmpty) =>
        /\ calls = 0
        /\ ~Called
        /\ pc \in {"received", "done"}
        /\ Done => /\ resp.status = 400
                   /\ Has(resp.body, "error")

C7_Witness ==
    /\ Done
    /\ handler = "analyze-title"
    /\ body = BodyWith(Str(<<>>))
    /\ ~env.youtube
    /\ resp.status = 400
    /\ calls = 0

\* the endpoints that need the YouTube credential
KeyHandlers == {"analyze-title", "keyword-research", "trending-india", "trending-us"}

\* the credential the handler needs is absent and its required input, if it
\* has one, is present
KeyAbsentInputPresent ==
    /\ Destructures(body)
    /\ \/ handler \in {"trending-india", "trending-us"} /\ ~env.youtube
       \/ handler \in {"analyze-title", "keyword-research"} /\ ~env.youtube /\ Truthy(body.field)
       \/ handler = "generate-content" /\ ~env.openai /\ Truthy(body.field)

\* C8: in analyze-title, keyword research, both trending handlers and
\* generate-content, when the API key the handler needs is absent and the
\* required input, if any, is present, the handler answers HTTP 500 with an
\* error field naming the missing key, and no outbound call is made at any
\* point of the request.
C8_MissingKeyIs500 ==
    KeyAbsentInputPresent =>
        /\ calls = 0
        /\ ~Called
        /\ pc \in {"received", "done"}
        /\ Done => /\ resp.status = 500
                   /\ Has(resp.body, "error")
                   /\ resp.body.error \in {"YouTube API key not configured",
                                           "OpenAI API key not configured"}

C8_Witness ==
    /\ Done
    /\ handler = "trending-india"
    /\ ~env.youtube
    /\ body = BodyWith(Str(<<"2", "0">>))
    /\ resp = Json(500, ErrorBody("YouTube API key not configured"))
    /\ calls = 0

\* C9: retryWithBackoff with maxRetries = 3, given an operation that fails
\* with status 429 exactly twice and then succeeds, invokes it exactly 3
\* times and returns the success value.
C9_TwoRateLimitsThenSuccess ==
    (/\ loop = "retryWithBackoff" /\ handler = "direct" /\ maxRetries = 3
     /\ script = <<RateLimited, RateLimited, Success>>) =>
        /\ calls <= 3
        /\ pc = "returned" => calls = 3 /\ ret = Returned(DirectValue)
        /\ pc = "sleep" => calls < 3

C9_Witness ==
    /\ loop = "retryWithBackoff" /\ maxRetries = 3
    /\ script = <<RateLimited, RateLimited, Success>>
    /\ pc = "returned" /\ calls = 3 /\ ret.kind = "value"

MaxRetriesExceeded == Err(0, <<"Max", "retries", "exceeded">>)

\* C10 as stated: retryWithBackoff (and makeOpenAIRequest), given an
\* operation that fails with a rate-limit signal on every invocation, invokes
\* it exactly maxRetries times and then propagates a terminal "max retries
\* exceeded" failure.
C10_PropagatesMaxRetriesExceeded ==
    (/\ pc = "returned" /\ loop \in {"retryWithBackoff", "makeOpenAIRequest"}
     /\ Len(script) = maxRetries
     /\ \A i \in 1..maxRetries : script[i] = RateLimited) =>
        calls = maxRetries /\ ret = Thrown(MaxRetriesExceeded)

\* C10 amended: given an operation that fails with a rate-limit signal on
\* every invocation and maxRetries >= 1, the helper invokes it exactly
\* maxRetries times, waits between the attempts only, and then propagates the
\* last attempt's rate-limit failure itself (retryWithBackoff: the error with
\* status 429; makeOpenAIRequest: "OpenAI API error: 429"), never "Max
\* retries exceeded", which is raised only for maxRetries = 0, uninvoked.
C10_PropagatesLastRateLimit ==
    (/\ pc = "returned" /\ loop \in {"retryWithBackoff", "makeOpenAIRequest"}
     /\ Len(script) = maxRetries
     /\ \A i \in 1..maxRetries : script[i] = RateLimited) =>
        /\ calls = maxRetries
        /\ maxRetries >= 1 =>
               /\ Len(waits) = maxRetries - 1
               /\ loop = "retryWithBackoff" => ret = Thrown(ErrorOf(RateLimited))
               /\ loop = "makeOpenAIRequest" =>
                      ret = Thrown(Err(0, <<"OpenAI", "API", "error", ":", "429">>))
        /\ maxRetries = 0 => ret = Thrown(MaxRetriesExceeded)

C10_Witness ==
    /\ pc = "returned" /\ loop = "retryWithBackoff" /\ maxRetries = 3
    /\ script = <<RateLimited, RateLimited, RateLimited>>
    /\ calls = 3 /\ ret.kind = "throw" /\ ret.error.status = 429

\* the helper is about to invoke the operation and that invocation fails with
\* something other than a rate-limit signal
NextFailsOtherwise ==
    /\ pc = "loop"
    /\ loop \in {"retryWithBackoff", "makeOpenAIRequest"}
    /\ attempt < maxRetries
    /\ ~ScriptAt(calls + 1).ok
    /\ ScriptAt(calls + 1).status # 429

\* what the helper propagates for a failed invocation that is no rate limit
PropagatedFor(o) ==
    IF loop = "retryWithBackoff" \/ o.status = 0
    THEN ErrorOf(o)
    ELSE Err(0, <<"OpenAI", "API", "error", ":", ToString(o.status)>>)

\* C11: in retryWithBackoff and makeOpenAIRequest a failure that is not a
\* rate-limit signal is propagated by the very step that meets it, whatever
\* the attempt number: the operation is invoked once, no delay is taken, the
\* attempt counter does not move, the helper ends by throwing; and once the
\* helper has ended the operation is never invoked again.
C11_OtherFailurePropagatesAtOnce ==
    [][/\ NextFailsOtherwise =>
            /\ pc' = "returned"
            /\ calls' = calls + 1
            /\ waits' = waits
            /\ attempt' = attempt
            /\ ret' = Thrown(PropagatedFor(ScriptAt(calls + 1)))
       /\ pc = "returned" => calls' = calls /\ waits' = waits]_vars

C11_Witness ==
    /\ pc = "returned" /\ loop = "makeOpenAIRequest" /\ handler = "direct"
    /\ maxRetries = 3
    /\ script = <<RateLimited, ServerError, Success>>
    /\ calls = 2 /\ waits = <<1000>>
    /\ ret = Thrown(Err(0, <<"OpenAI", "API", "error", ":", "500">>))

(***************************************************************************)
(* The heuristic scorer.                                                   *)
(***************************************************************************)
\* calculateFallbackScore has returned its result for SubmittedTitle
Scored == pc = "returned" /\ loop = "calculateFallbackScore"
\* generateImprovements and generateStrengths have returned their lists
Suggested == pc = "returned" /\ loop = "generateImprovements"
Score == ret.value
Categories == <<"length", "keywords", "engagement", "clarity", "trending">>
SumOf(breakdown) ==
    breakdown.length + breakdown.keywords + breakdown.engagement + breakdown.clarity
        + breakdown.trending

\* C12: for every title, the overall value returned by calculateFallbackScore
\* is the mean of the five breakdown values of the same result rounded to the
\* nearest integer (a half rounds up): overall - 1/2 <= sum / 5 < overall + 1/2.
C12_OverallIsRoundedMean ==
    Scored =>
        /\ 10 * Score.overall - 5 <= 2 * SumOf(Score.breakdown)
        /\ 2 * SumOf(Score.breakdown) < 10 * Score.overall + 5

\* a title whose mean is rounded upwards
C12_Witness ==
    /\ Scored
    /\ 5 * Score.overall > SumOf(Score.breakdown)

\* C13: the length sub-score is a function of the number n of characters of
\* the title alone: 100 for 50..60, 80 for 40..49 and 61..70, 60 for 30..39
\* and 71..80, 40 below 30 and above 80.
C13_LengthBands ==
    Scored =>
        LET n == Len(SubmittedTitle) IN
        Score.breakdown.length =
            CASE n \in 50..60 -> 100
              [] n \in 40..49 \cup 61..70 -> 80
              [] n \in 30..39 \cup 71..80 -> 60
              [] n < 30 \/ n > 80 -> 40

\* a title of 60 characters that has other features than its length
C13_Witness ==
    /\ Scored
    /\ Len(SubmittedTitle) = 60
    /\ Score.breakdown.length = 100
    /\ Score.breakdown.engagement > 40

PowerWordsIn(title) ==
    Cardinality({i \in 1..Len(powerWords) : Includes(ToLowerCase(title), powerWords[i])})
HasDigit(title) == \E i \in 1..Len(title) : title[i] \in Digits
HasChar(title, c) == \E i \in 1..Len(title) : title[i] = c
HasUpperRun(title) ==
    \E i \in 1..(Len(title) - 1) : IsUpper(title[i]) /\ IsUpper(title[i + 1])
Featureless(title) ==
    /\ PowerWordsIn(title) = 0
    /\ ~HasDigit(title)
    /\ ~HasChar(title, "?")
    /\ ~HasChar(title, "!")
    /\ ~HasUpperRun(title)

\* C14: the engagement sub-score is 40 for a title with no power word (in any
\* case), no digit, no "?", no "!" and no run of two uppercase letters, and in
\* general the smaller of 100 and 40 + 8 for each power word matched + 15 for
\* a digit + 10 for "?" + 5 for "!" + 10 for an uppercase run.
C14_EngagementScore ==
    Scored =>
        LET title == SubmittedTitle
            total == 40 + 8 * PowerWordsIn(title)
                        + (IF HasDigit(title) THEN 15 ELSE 0)
                        + (IF HasChar(title, "?") THEN 10 ELSE 0)
                        + (IF HasChar(title, "!") THEN 5 ELSE 0)
                        + (IF HasUpperRun(title) THEN 10 ELSE 0)
        IN /\ Score.breakdown.engagement = IF total > 100 THEN 100 ELSE total
           /\ Featureless(title) => Score.breakdown.engagement = 40

\* a featureless title that is not empty and has an uppercase letter
C14_Witness ==
    /\ Scored
    /\ Featureless(SubmittedTitle)
    /\ \E i \in 1..Len(SubmittedTitle) : IsUpper(SubmittedTitle[i])
    /\ Score.breakdown.engagement = 40

\* C15: the title "BGMI Best Tips and Tricks 2024" has 30 characters and so
\* lies in the band 30..39: its length sub-score is 60, its keyword sub-score
\* 85 (at least 60) and its engagement sub-score 65 (at least 55).
C15_ExampleTitle ==
    (Scored /\ SubmittedTitle = TitleBGMI) =>
        /\ Len(SubmittedTitle) = 30
        /\ Score.breakdown.length = 60
        /\ Score.breakdown.keywords = 85
        /\ Score.breakdown.engagement = 65

C15_Witness ==
    /\ Scored
    /\ SubmittedTitle = TitleBGMI
    /\ Score.breakdown.length = 60

\* C15 as stated: the length sub-score of the example title is 40
C15_AsStated ==
    (Scored /\ SubmittedTitle = TitleBGMI) =>
        /\ Score.breakdown.length = 40
        /\ Score.breakdown.keywords >= 60
        /\ Score.breakdown.engagement >= 55

\* the breakdown the two lists were made from
BreakdownUsed == IF Scored THEN Score.breakdown ELSE body.breakdown

RECURSIVE Select(_, _)
\* the categories of cats that lie in chosen, in the order of cats
Select(cats, chosen) ==
    IF cats = <<>> THEN <<>>
    ELSE (IF Head(cats) \in chosen THEN <<Head(cats)>> ELSE <<>>)
             \o Select(Tail(cats), chosen)

Below70 == {c \in DOMAIN BreakdownUsed : BreakdownUsed[c] < 70}
AtLeast80 == {c \in DOMAIN BreakdownUsed : BreakdownUsed[c] >= 80}
\* the length category has a suggestion only for a title shorter than 40 or
\* longer than 70 characters
Improvable ==
    {c \in Below70 : c = "length" => Len(SubmittedTitle) < 40 \/ Len(SubmittedTitle) > 70}

ImprovementOf(c) ==
    CASE c = "length" ->
            IF Len(SubmittedTitle) < 40
            THEN "Consider making your title longer (40-60 characters is optimal)"
            ELSE "Try shortening your title for better visibility"
      [] c = "keywords" ->
            "Add relevant keywords like 'how to', 'best', or 'guide' to improve searchability"
      [] c = "engagement" ->
            "Include numbers or power words to make your title more engaging"
      [] c = "clarity" ->
            "Make your title clearer and more specific about the video content"
      [] c = "trending" ->
            "Consider adding current year or trending formats to boost discoverability"
StrengthOf(c) ==
    CASE c = "length" -> "Great title length for optimal visibility"
      [] c = "keywords" -> "Good use of searchable keywords"
      [] c = "engagement" -> "Engaging and attention-grabbing"
      [] c = "clarity" -> "Clear and easy to understand"
      [] c = "trending" -> "Uses trending formats effectively"

FirstOf(chosen, n) == SubSeq(chosen, 1, IF Len(chosen) < n THEN Len(chosen) ELSE n)

\* C16: generateImprovements returns at most 4 items and generateStrengths at
\* most 3; the strengths are the first three, in the order length, keywords,
\* engagement, clarity, trending, of the categories whose sub-score is at
\* least 80; the improvements are the first four, in the same order, of the
\* categories whose sub-score is below 70, where the length category counts
\* only for a title shorter than 40 or longer than 70 characters.
C16_SuggestionLists ==
    (Scored \/ Suggested) =>
        LET improvements == FirstOf(Select(Categories, Improvable), 4)
            strengths == FirstOf(Select(Categories, AtLeast80), 3)
        IN /\ Len(Score.improvements) <= 4
           /\ Len(Score.strengths) <= 3
           /\ Score.improvements = [i \in 1..Len(improvements) |-> ImprovementOf(improvements[i])]
           /\ Score.strengths = [i \in 1..Len(strengths) |-> StrengthOf(strengths[i])]

\* all five sub-scores are below 70 and the title is short: five suggestions
\* apply and the first four are returned
C16_Witness ==
    /\ Suggested
    /\ Cardinality(Improvable) = 5
    /\ Len(Score.improvements) = 4
    /\ Score.improvements[1] = "Consider making your title longer (40-60 characters is optimal)"
    /\ Score.improvements[4] = "Make your title clearer and more specific about the video content"

\* C16 as stated: every category whose sub-score is below 70 contributes a
\* suggestion, for every title
C16_AsStated ==
    (Scored \/ Suggested) =>
        /\ Len(Score.improvements) = Len(FirstOf(Select(Categories, Below70), 4))
        /\ Len(Score.strengths) = Len(FirstOf(Select(Categories, AtLeast80), 3))

(***************************************************************************)
(* The TitleScore in a response of score-title.                            *)
(***************************************************************************)
\* the response carries the parsed remote reply (a JavaScript object) rather
\* than the heuristic scorer's result
FromRemote(score) == Has(score, "type")
OverallIn(score) == IF FromRemote(score) THEN score.overall.num ELSE score.overall
ImprovementsIn(score) ==
    IF FromRemote(score) THEN score.improvements.items ELSE score.improvements
StrengthsIn(score) ==
    IF FromRemote(score) THEN score.strengths.items ELSE score.strengths

\* C17 as stated: every TitleScore answered with HTTP 200 by score-title,
\* from the heuristic path or from the remote reply, has overall and the five
\* breakdown values in 0..100, at most 4 improvements and at most 3 strengths.
C17_ScoreWithinRanges ==
    (Done /\ handler = "score-title" /\ resp.status = 200) =>
        /\ OverallIn(resp.body) \in 0..100
        /\ \A i \in 1..Len(Categories) : resp.body.breakdown[Categories[i]] \in 0..100
        /\ Len(ImprovementsIn(resp.body)) <= 4
        /\ Len(StrengthsIn(resp.body)) <= 3

(***************************************************************************)
(* The trending lists.                                                     *)
(***************************************************************************)
TrendingHandlers == {"trending-india", "trending-us"}
\* a trending-feed handler has answered HTTP 200
TrendingAnswered == Done /\ handler \in TrendingHandlers /\ resp.status = 200
Trending == resp.body.trending
\* the videos of the upstream result the answer was made from
UpstreamVideos == IF Trending = <<>> THEN <<>> ELSE upstream.data.items.items
\* the entry a handler derives from a video, with the lowest random factor
DerivedEntry(video) ==
    IF handler = "trending-india" THEN trendingIndiaEntry(video)
    ELSE trendingUSEntry(video, 0)
DerivedKeywords == {DerivedEntry(UpstreamVideos[i]).keyword : i \in 1..Len(UpstreamVideos)}
ReturnedKeywords == {Trending[i].keyword : i \in 1..Len(Trending)}

\* C18 as stated: in both trending-feed handlers, for any upstream list of
\* videos, no two entries of the returned trending list have the same derived
\* keyword, and the list has at most 10 entries.
C18_DistinctKeywordsAtMostTen ==
    TrendingAnswered =>
        /\ Len(Trending) <= 10
        /\ \A i, j \in 1..Len(Trending) : i # j => Trending[i].keyword # Trending[j].keyword

\* C19 as stated: in both trending-feed handlers the returned list is ordered
\* by searchVolume descending and holds the 10 highest-volume distinct
\* keywords of the whole upstream result: it has one entry for each distinct
\* keyword, up to ten, and no video whose keyword was left out has a volume
\* above that of a returned entry (for the US handler: not even with the
\* lowest random factor).
C19_TopTenByVolume ==
    TrendingAnswered =>
        /\ \A i, j \in 1..Len(Trending) :
               i < j => Trending[i].searchVolume >= Trending[j].searchVolume
        /\ Len(Trending) = IF Cardinality(DerivedKeywords) < 10
                           THEN Cardinality(DerivedKeywords) ELSE 10
        /\ \A i \in 1..Len(UpstreamVideos), j \in 1..Len(Trending) :
               DerivedEntry(UpstreamVideos[i]).keyword \notin ReturnedKeywords =>
                   DerivedEntry(UpstreamVideos[i]).searchVolume <= Trending[j].searchVolume

\* the fetch settled
Fetched == ~Has(upstream, "pending")
\* the upstream call succeeded and its listing has no items property or an
\* empty one
UpstreamEmpty ==
    /\ Fetched
    /\ ~upstream.threw /\ upstream.ok /\ upstream.parses
    /\ ~ReadsMissing(upstream.data)
    /\ (~Truthy(upstream.data.items) \/ upstream.data.items.items = <<>>)
\* the upstream call threw or returned a non-OK status
UpstreamFailed == Fetched /\ (upstream.threw \/ ~upstream.ok)

\* C20: a trending-feed handler answers HTTP 200 with trending = [] exactly
\* when the credential is present and the upstream call succeeded with a
\* listing of zero or no items; when the upstream call returns a non-OK status
\* or throws, the answer is HTTP 500 with an error field, never a 200 with an
\* empty list.
C20_EmptyListOnlyForEmptyUpstream ==
    (Done /\ handler \in TrendingHandlers) =>
        /\ (resp.status = 200 /\ resp.body.trending = <<>>) <=> (env.youtube /\ UpstreamEmpty)
        /\ UpstreamFailed => (resp.status = 500 /\ Has(resp.body, "error"))

\* the US handler is given a listing with an empty items array
C20_Witness ==
    /\ Done /\ handler = "trending-us" /\ env.youtube
    /\ upstream = Response(200, TRUE, Listing(Arr(<<>>)))
    /\ resp = Json(200, [trending |-> <<>>])

(***************************************************************************)
(* Keyword research: the per-variation analyses.                           *)
(***************************************************************************)
\* the fetch rejected, or answered with a non-OK status or a body that is
\* not JSON
CallFailed(r) == r.threw \/ ~r.ok \/ ~r.parses
\* the search succeeded and found nothing
NoSearchResults(r) ==
    /\ ~CallFailed(r)
    /\ ~ReadsMissing(r.data)
    /\ (~Truthy(r.data.items) \/ r.data.items.items = <<>>)
\* a search listing as the interface YouTubeSearchResult declares it, with at
\* least one item
SearchListingWithResults(data) ==
    /\ ~ReadsMissing(data)
    /\ Truthy(data.items)
    /\ data.items.items # <<>>
    /\ \A i \in 1..Len(data.items.items) :
           ~ReadsMissing(data.items.items[i].id) /\ ~ReadsMissing(data.items.items[i].snippet)
    /\ ~ReadsMissing(data.pageInfo)
\* a statistics listing as the interface YouTubeVideoStats declares it
StatsListing(data) ==
    /\ ~ReadsMissing(data)
    /\ ~ReadsMissing(data.items)
    /\ \A i \in 1..Len(data.items.items) : ~ReadsMissing(data.items.items[i].statistics)

\* the variations whose task changes in the step
Changing == {i \in 1..Len(tasks) : tasks'[i] # tasks[i]}
NonNull(results) == SelectSeq(results, LAMBDA result : result # Null)
ResultsOf(ts) == [i \in 1..Len(ts) |-> ts[i].result]
ElementsOf(list) == {list[i] : i \in 1..Len(list)}

\* one fetch of variation i settles with the answer upstream'
SettlesAsClaimed(i) ==
    LET r == upstream' IN
    /\ Changing = {i}
    /\ pc' = "analysis"
    /\ resp' = resp
    /\ tasks[i].step = "search" =>
         /\ (CallFailed(r) \/ NoSearchResults(r)) => tasks'[i] = Analysed(Null)
         /\ (~CallFailed(r) /\ SearchListingWithResults(r.data)) =>
                tasks'[i] = StatsPending(r.data)
    /\ tasks[i].step = "stats" =>
         /\ tasks'[i].step = "done"
         /\ CallFailed(r) => tasks'[i].result = Null
         /\ (~CallFailed(r) /\ StatsListing(r.data) /\ SearchListingWithResults(tasks[i].search)) =>
                /\ tasks'[i].result # Null
                /\ tasks'[i].result.keyword = relatedKeywords[i]

\* Promise.all resolves: the answer holds the non-null results, each once
AnswersWithSurvivors ==
    /\ tasks' = tasks
    /\ resp'.status = 200
    /\ Len(resp'.body.keywords) = Len(NonNull(ResultsOf(tasks)))
    /\ ElementsOf(resp'.body.keywords) = ElementsOf(NonNull(ResultsOf(tasks)))

\* C21: in keyword research the per-variation analyses are isolated: a fetch
\* that settles changes the analysis of its own variation only, in any order
\* of completion; a variation whose search or statistics call fails, or whose
\* search finds nothing, ends without an entry, and one whose calls both
\* succeed with at least one search result ends with an entry for its
\* keyword; the request never fails once the analyses are started and the
\* answer is HTTP 200 with exactly the entries of the surviving variations.
C21_VariationsAreIsolated ==
    [][(pc = "analysis") =>
          /\ pc' \in {"analysis", "done"}
          /\ pc' = "done" => AnswersWithSurvivors
          /\ \A i \in Changing : SettlesAsClaimed(i)]_vars

\* the first variation's statistics call was the last to settle and failed;
\* the second variation, which had finished before, keeps its entry
C21_Witness ==
    /\ Done /\ handler = "keyword-research"
    /\ Len(tasks) = 2
    /\ tasks[1].result = Null
    /\ tasks[2].result # Null
    /\ upstream = Response(403, TRUE, Listing(Undefined))
    /\ resp.status = 200
    /\ Len(resp.body.keywords) = 1
    /\ resp.body.keywords[1] = tasks[2].result
    /\ resp.body.keywords[1].keyword = relatedKeywords[2]

(***************************************************************************)
(* calculateTrendDirection.                                                *)
(***************************************************************************)
\* calculateTrendDirection has returned for the videos in body.field
Trended == pc = "returned" /\ loop = "calculateTrendDirection"
TrendVideos == body.field.items
\* video i published on day d instead
Redated(videos, i, d) == [videos EXCEPT ![i].snippet.publishedAt = d]
\* videos i and i + 1 exchanged
Swapped(videos, i) == [videos EXCEPT ![i] = videos[i + 1], ![i + 1] = videos[i]]

\* C22 as stated: calculateTrendDirection returns "stable" for fewer than 5
\* videos; for 5 or more it compares the number of videos of the newer half
\* with that of the older half and returns "up" above 1.5 times, "down" below
\* 0.7 times and "stable" otherwise; and each of the three values is returned
\* for some result set.
C22_ThreeDirections ==
    Trended =>
        LET n == Len(TrendVideos)
            newer == n \div 2
            older == n - n \div 2
        IN /\ n < 5 => ret.value = "stable"
           /\ n >= 5 => ret.value = IF 10 * newer > 15 * older THEN "up"
                                    ELSE IF 10 * newer < 7 * older THEN "down"
                                    ELSE "stable"
           /\ \A direction \in {"up", "down", "stable"} :
                  \E videos \in TrendInputs : calculateTrendDirection(videos) = direction

\* C27: the value calculateTrendDirection returns depends on the number of
\* videos alone: publishing any video on another day, or exchanging two
\* neighbouring videos (and so any permutation and any change of dates),
\* leaves the result as it is; and the result is never "up".
C27_CountAloneNeverUp ==
    Trended =>
        /\ \A i \in 1..Len(TrendVideos), d \in Days :
               calculateTrendDirection(Redated(TrendVideos, i, d)) = ret.value
        /\ \A i \in 1..(Len(TrendVideos) - 1) :
               calculateTrendDirection(Swapped(TrendVideos, i)) = ret.value
        /\ ret.value # "up"

\* five of seven videos were published on the newest day and the result is
\* "stable" all the same
C27_Witness ==
    /\ Trended
    /\ Len(TrendVideos) = 7
    /\ Cardinality({i \in 1..7 : TrendVideos[i].snippet.publishedAt = 3}) = 5
    /\ Cardinality({i \in 1..7 : TrendVideos[i].snippet.publishedAt = 1}) = 2
    /\ ret.value = "stable"

(***************************************************************************)
(* generateCSV.                                                            *)
(***************************************************************************)
\* generateCSV has made the content for the records in body.field
CsvMade == pc = "returned" /\ loop = "generateCSV"
CsvData == body.field.items
CsvLines == SplitOn(ret.value, "\n")
HeaderLine ==
    <<"K", "e", "y", "w", "o", "r", "d", ",", "S", "e", "a", "r", "c", "h", " ", "V", "o", "l", "u", "m", "e", ",", "C", "o", "m", "p", "e", "t", "i", "t", "i", "o", "n", " ", "S", "c", "o", "r", "e", " ", "(", "%", ")", ",", "T", "r", "e", "n", "d", " ", "D", "i", "r", "e", "c", "t", "i", "o", "n", ",", "V", "i", "d", "e", "o", " ", "C", "o", "u", "n", "t", ",", "A", "v", "e", "r", "a", "g", "e", " ", "V", "i", "e", "w", "s">>
\* the fields of a record in the order keyword, searchVolume,
\* competitionScore, trendDirection, videoCount, avgViews, the two texts in
\* double quotes, with commas between them
RecordLine(row) ==
    <<"\"">> \o row.keyword \o <<"\"", ",">> \o NumberText(row.searchVolume) \o <<",">>
        \o NumberText(row.competitionScore) \o <<",", "\"">> \o row.trendDirection
        \o <<"\"", ",">> \o NumberText(row.videoCount) \o <<",">> \o NumberText(row.avgViews)
LineBreaksIn(text) == Cardinality({i \in 1..Len(text) : text[i] = "\n"})
RECURSIVE Sum(_)
Sum(numbers) == IF numbers = <<>> THEN 0 ELSE Head(numbers) + Sum(Tail(numbers))
LineBreaksInRecords ==
    Sum([i \in 1..Len(CsvData) |->
            LineBreaksIn(CsvData[i].keyword) + LineBreaksIn(CsvData[i].trendDirection)])

\* C23: for a list of n records generateCSV produces the header line and then,
\* for each record in order, a line break and the record's fields in the
\* order keyword, searchVolume, competitionScore, trendDirection, videoCount,
\* avgViews joined by commas, the two texts wrapped in double quotes as they
\* are and the four numbers unquoted; these are exactly n lines, the i-th
\* being the i-th record's, when no text field contains a line break, and one
\* line more for every line break in a text field.
C23_CsvContent ==
    CsvMade =>
        /\ ret.value = HeaderLine \o Concat([i \in 1..Len(CsvData) |->
                                                <<"\n">> \o RecordLine(CsvData[i])])
        /\ Len(CsvLines) = 1 + Len(CsvData) + LineBreaksInRecords
        /\ CsvLines[1] = HeaderLine
        /\ LineBreaksInRecords = 0 =>
               \A i \in 1..Len(CsvData) : CsvLines[i + 1] = RecordLine(CsvData[i])

\* the record cats/100/20/up/500/50
C23_Witness ==
    /\ CsvMade
    /\ CsvData = <<[keyword |-> <<"c", "a", "t", "s">>, searchVolume |-> 100,
                    competitionScore |-> 20, trendDirection |-> <<"u", "p">>,
                    videoCount |-> 500, avgViews |-> 50]>>
    /\ Len(CsvLines) = 2
    /\ CsvLines[2] = <<"\"", "c", "a", "t", "s", "\"", ",", "1", "0", "0", ",", "2", "0", ",", "\"", "u", "p", "\"", ",", "5", "0", "0", ",", "5", "0">>

\* C23 as stated: the header line is followed by exactly n lines, the i-th
\* being the i-th record's fields
C23_ExactlyNLines ==
    CsvMade =>
        /\ Len(CsvLines) = 1 + Len(CsvData)
        /\ CsvLines[1] = HeaderLine
        /\ \A i \in 1..Len(CsvData) : CsvLines[i + 1] = RecordLine(CsvData[i])

(***************************************************************************)
(* analyze-title: the three lists of a successful response.                *)
(***************************************************************************)
AnalysisAnswered == Done /\ handler = "analyze-title" /\ resp.status = 200
\* the words of a text in lower case, separated by blanks
LowerWords(text) == SplitWs(ToLowerCase(text))
\* the words of the first text that occur in the second, over the larger of
\* the two word counts, is below 7/10
OverlapBelow70(text1, text2) ==
    LET words1 == LowerWords(text1)
        words2 == LowerWords(text2)
        common == Cardinality({i \in 1..Len(words1) :
                                  \E j \in 1..Len(words2) : words2[j] = words1[i]})
        larger == IF Len(words1) > Len(words2) THEN Len(words1) ELSE Len(words2)
    IN 10 * common < 7 * larger
NoDuplicates(list) == \A i, j \in 1..Len(list) : i # j => list[i] # list[j]

\* C24: every successful analyze-title response has at most 8 relatedTitles,
\* each longer than 20 characters and with a word-overlap ratio against the
\* input title strictly below 0.7, so that an upstream title equal to the
\* input title ignoring case is never among them; at most 12 hashtags, no two
\* the same; and at most 4 suggestions.
C24_AnalysisLists ==
    AnalysisAnswered =>
        /\ Len(resp.body.relatedTitles) <= 8
        /\ \A i \in 1..Len(resp.body.relatedTitles) :
               /\ Len(resp.body.relatedTitles[i]) > 20
               /\ OverlapBelow70(SubmittedTitle, resp.body.relatedTitles[i])
               /\ ToLowerCase(resp.body.relatedTitles[i]) # ToLowerCase(SubmittedTitle)
        /\ Len(resp.body.hashtags) <= 12
        /\ NoDuplicates(resp.body.hashtags)
        /\ Len(resp.body.suggestions) <= 4

\* the search answered with the input title in capitals and twelve more
\* titles, more than eight of them dissimilar and long enough; the hashtags
\* reach twelve
C24_Witness ==
    /\ AnalysisAnswered
    /\ SubmittedTitle = TitleBGMI
    /\ Len(resp.body.relatedTitles) = 8
    /\ Len(resp.body.hashtags) = 12
    /\ Len(upstream.data.items.items) = 13
    /\ upstream.data.items.items[1] = TitleInCapitals

(***************************************************************************)
(* The waits of the retry loops.                                           *)
(***************************************************************************)
\* a retry loop is running or has ended
InLoop == loop \in Loops /\ pc \in {"loop", "sleep", "returned"}
\* the i-th invocation was answered with a rate-limit signal
RateLimitedAt(i) == ~ScriptAt(i).ok /\ ScriptAt(i).status = 429
\* the number of rate-limited invocations in a row that end just before the i-th
RateLimitedBefore(i) ==
    LET others == {j \in 1..(i - 1) : ~RateLimitedAt(j)} IN
    IF others = {} THEN i - 1
    ELSE i - 1 - (CHOOSE j \in others : \A k \in others : k <= j)
\* 2 ^ n by repeated doubling
RECURSIVE Doubled(_, _)
Doubled(x, n) == IF n = 0 THEN x ELSE Doubled(2 * x, n - 1)

\* C25: waits[i] is the wait taken after the i-th invocation.  In
\* retryWithBackoff and makeOpenAIRequest every wait follows a rate-limited
\* invocation and the wait after the n-th one in a row (n from 0) is
\* baseDelay * 2^n: 1000 ms, then 2000 ms.  In rewriteTitlesWithAI the attempt
\* counter starts at 1: the wait after a rate-limited attempt k is 1000 * 2^k
\* (2000 ms, then 4000 ms) and the wait after any other failed attempt k is
\* 1000 * k.  In all three no wait is taken after the final attempt.
C25_BackoffDelays ==
    InLoop =>
        /\ \A i \in 1..Len(waits) :
               IF loop = "rewriteTitlesWithAI"
               THEN waits[i] = IF RateLimitedAt(i) THEN Doubled(1000, i) ELSE 1000 * i
               ELSE RateLimitedAt(i) /\ waits[i] = Doubled(BaseDelay, i - 1)
        /\ Len(waits) <= calls
        /\ Len(waits) < maxRetries \/ waits = <<>>
        /\ pc = "returned" => (Len(waits) < calls \/ calls = 0)

\* makeOpenAIRequest with four attempts, all rate-limited: three waits, none
\* after the last attempt
C25_Witness ==
    /\ pc = "returned" /\ loop = "makeOpenAIRequest" /\ handler = "direct"
    /\ maxRetries = 4
    /\ \A i \in 1..4 : RateLimitedAt(i)
    /\ calls = 4
    /\ waits = <<1000, 2000, 4000>>
    /\ ret.kind = "throw"

\* C25 as stated: in every retry call site the wait that follows the n-th
\* consecutive rate-limited attempt (n from 0) is baseDelay * 2^n, 1000 ms and
\* then 2000 ms, and no wait follows the final attempt.
C25_SameDelaysEverywhere ==
    InLoop =>
        /\ \A i \in 1..Len(waits) :
               RateLimitedAt(i) => waits[i] = Doubled(BaseDelay, RateLimitedBefore(i))
        /\ Len(waits) < maxRetries \/ waits = <<>>
        /\ pc = "returned" => (Len(waits) < calls \/ calls = 0)

(***************************************************************************)
(* Termination of the retry loops.                                         *)
(***************************************************************************)
\* a retry loop was called and has not ended
Looping == loop \in Loops /\ pc \in {"loop", "sleep"}
\* the retry loop has ended, with a value or with an error
Ended == loop \in Loops /\ pc = "returned" /\ ret.kind \in {"value", "throw"}

ScoreTitleAnswered == handler = "score-title" /\ pc = "done"
\* the four fields of a title score in a response body
ScoreOf(b) ==
    [overall |-> b.overall, breakdown |-> b.breakdown,
     improvements |-> b.improvements, strengths |-> b.strengths]
\* the remote call of this request ended with an error
RemoteFailed == loop = "retryWithBackoff" /\ ret.kind = "throw"

\* C28: score-title answers with status 200 or 400 only.  400 is the answer
\* to a body that parses to an object without a non-empty string title; a body
\* that cannot be parsed or destructured gets 200 with the heuristic score of
\* the empty title; past validation every failure of the remote call gets 200
\* with the heuristic score of the submitted title.
C28_OnlyOkOrBadRequest ==
    ScoreTitleAnswered =>
        /\ resp.status \in {200, 400}
        /\ resp.status = 400 <=> (Destructures(body) /\ ~ValidTitle(body.field))
        /\ ~Destructures(body) =>
               resp = Json(200, calculateFallbackScore(<<>>, currentYear))
        /\ Destructures(body) /\ ValidTitle(body.field) /\ RemoteFailed =>
               /\ resp.status = 200
               /\ ScoreOf(resp.body) = calculateFallbackScore(TitleArg, currentYear)

\* the remote call fails on the network and the title still gets its
\* heuristic score
C28_Witness ==
    /\ ScoreTitleAnswered
    /\ body = BodyWith(Str(TitleBGMI))
    /\ RemoteFailed
    /\ ret.error.status = 0
    /\ calls = 1
    /\ resp = Json(200, calculateFallbackScore(TitleBGMI, currentYear))

(***************************************************************************)
(* The reply of the model that score-title passes on.                      *)
(***************************************************************************)
\* the remote call resolved with a text that parses to an object holding all
\* four keys
CompleteReply ==
    /\ loop = "retryWithBackoff" /\ ret.kind = "value"
    /\ ret.value.parses
    /\ ret.value.value.type = "object"
    /\ \A key \in {"overall", "breakdown", "improvements", "strengths"} :
           ret.value.value[key] # Undefined

\* C29 as stated: a reply that parses as JSON and holds the four keys overall,
\* breakdown, improvements and strengths is returned to the caller unchanged,
\* for every value of overall in 0..100 including 0; the heuristic score is
\* substituted only when parsing fails or a key is absent.
C29_CompleteReplyUnchanged ==
    ScoreTitleAnswered /\ CompleteReply /\ ret.value.value.overall.type = "number"
                       /\ ret.value.value.overall.num \in 0..100
        => resp = Json(200, ret.value.value)

(***************************************************************************)
(* The client component: the "Top Trending in India" card.  Mount is the   *)
(* effect of the first render, handleIndiaCategoryChange a click on a      *)
(* category button, FetchSettled and JsonSettled the two awaits of         *)
(* loadIndiaTrendingSearches.                                              *)
(***************************************************************************)
categories ==
    <<[id |-> "all", name |-> "All", categoryId |-> <<"0">>],
      [id |-> "gaming", name |-> "Gaming", categoryId |-> <<"2", "0">>],
      [id |-> "music", name |-> "Music", categoryId |-> <<"1", "0">>],
      [id |-> "sports", name |-> "Sports", categoryId |-> <<"1", "7">>],
      [id |-> "entertainment", name |-> "Entertainment", categoryId |-> <<"2", "4">>],
      [id |-> "education", name |-> "Education", categoryId |-> <<"2", "7">>],
      [id |-> "tech", name |-> "Tech", categoryId |-> <<"2", "8">>],
      [id |-> "news", name |-> "News", categoryId |-> <<"2", "5">>]>>
CategoryIds == {categories[i].id : i \in 1..Len(categories)}

\* categories.find((cat) => cat.id === categoryId)?.categoryId || "0"
youtubeCategory(categoryId) ==
    LET found == {i \in 1..Len(categories) : categories[i].id = categoryId} IN
    IF found = {} THEN <<"0">>
    ELSE categories[CHOOSE i \in found : \A j \in found : i <= j].categoryId

\* what the videos endpoint answers while the card is used
Charts ==
    {FetchRejects, Response(403, TRUE, Listing(Undefined)),
     Response(200, TRUE, Listing(Undefined)),
     Response(200, TRUE, Listing(Arr(<<VideoLive>>))),
     Response(200, TRUE, Listing(Arr(<<VideoSong, VideoNoCount>>)))}

\* the response fetch resolves with, for a response of the handler
FetchResponse(r) == Response(r.status, TRUE, r.body)

\* what fetch("/api/youtube/trending-india") can resolve with for a category:
\* the handler's responses, or a page of a gateway that is no JSON
FeedResponses(category) ==
    {FetchResponse(trendingIndiaFetched(r, Str(category))) : r \in Charts}
        \cup {FetchResponse(Json(500, ErrorBody("YouTube API key not configured"))),
              Response(502, FALSE, Null), Response(200, FALSE, Null)}

NoResponse == [pending |-> TRUE]
Load(categoryId) == [categoryId |-> categoryId, at |-> "fetch", response |-> NoResponse]

\* Array without its i-th element
Without(s, i) == SubSeq(s, 1, i - 1) \o SubSeq(s, i + 1, Len(s))

\* finally { setLoadingIndiaTrending(false) }: the call is over
EndLoad(i) ==
    /\ loadingIndiaTrending' = FALSE
    /\ fetches' = Without(fetches, i)

\* loadIndiaTrendingSearches up to its fetch
StartLoad(categoryId) ==
    /\ loadingIndiaTrending' = TRUE
    /\ fetches' = Append(fetches, Load(categoryId))

\* catch (error) { toast(...) } finally { ... }
LoadFails(i, description) ==
    /\ toast' = description
    /\ EndLoad(i)
    /\ UNCHANGED <<indiaTrendingSearches, indiaTrendingHashtags, shownFor>>

\* errorData.details || "Failed to load India trending searches"
DetailsOrDefault(errorData) ==
    IF "details" \in DOMAIN errorData /\ errorData.details # <<>>
    THEN errorData.details
    ELSE <<"Failed", "to", "load", "India", "trending", "searches">>

\* useEffect(() => { loadIndiaTrendingSearches("all") }, [])
Mount ==
    /\ ~mounted
    /\ mounted' = TRUE
    /\ StartLoad("all")
    /\ UNCHANGED <<serverVars, selectedIndiaCategory, indiaTrendingSearches,
                   indiaTrendingHashtags, shownFor, toast>>

\* a category button can be clicked: disabled={loadingIndiaTrending}
CanClick == mounted /\ ~loadingIndiaTrending

handleIndiaCategoryChange ==
    /\ CanClick
    /\ \E categoryId \in CategoryIds :
         /\ selectedIndiaCategory' = categoryId
         /\ StartLoad(categoryId)
    /\ UNCHANGED <<serverVars, mounted, indiaTrendingSearches, indiaTrendingHashtags,
                   shownFor, toast>>

\* `await fetch(...)` settles: it rejects, or it resolves with a response
FetchSettled ==
    /\ \E i \in 1..Len(fetches) :
         /\ fetches[i].at = "fetch"
         /\ \/ LoadFails(i, <<"Failed", "to", "fetch">>)
            \/ /\ \E r \in FeedResponses(youtubeCategory(fetches[i].categoryId)) :
                     fetches' = [fetches EXCEPT ![i] = [@ EXCEPT !.at = "json", !.response = r]]
               /\ UNCHANGED <<loadingIndiaTrending, indiaTrendingSearches,
                              indiaTrendingHashtags, shownFor, toast>>
    /\ UNCHANGED <<serverVars, mounted, selectedIndiaCategory>>

\* `await response.json()` settles, and the function runs to its end
JsonSettled ==
    /\ \E i \in 1..Len(fetches) :
         /\ fetches[i].at = "json"
         /\ LET response == fetches[i].response IN
            IF ~response.parses THEN LoadFails(i, SyntaxError.message)
            ELSE IF ~response.ok THEN LoadFails(i, DetailsOrDefault(response.data))
            ELSE /\ indiaTrendingSearches' = response.data.trending
                 /\ indiaTrendingHashtags' = response.data.hashtags
                 /\ shownFor' = fetches[i].categoryId
                 /\ EndLoad(i)
                 /\ UNCHANGED toast
    /\ UNCHANGED <<serverVars, mounted, selectedIndiaCategory>>

NextClient == Mount \/ handleIndiaCategoryChange \/ FetchSettled \/ JsonSettled

SpecClient == InitRetry /\ [][NextClient]_vars

\* The same card when the browser runs the effect of the first render and
\* every fetch and every body read settles.
SpecClientFair ==
    /\ InitRetry
    /\ [][NextClient]_vars
    /\ WF_vars(Mount)
    /\ WF_vars(FetchSettled)
    /\ WF_vars(JsonSettled)

(***************************************************************************)
(* The trending card: one request at a time, the flag, the lists shown.    *)
(***************************************************************************)
\* the hashtags the card renders
DisplayedHashtags ==
    IF Len(indiaTrendingHashtags) > 0 /\ selectedIndiaCategory # "all"
    THEN indiaTrendingHashtags ELSE <<>>
\* the hashtags of the selected category, as the handler answers them
HashtagsOfSelected == getCategoryHashtags(Str(youtubeCategory(selectedIndiaCategory)))
Idle == mounted /\ fetches = <<>>

\* C30 as stated: for any sequence of category selections and trending-feed
\* responses, successes and failures, at most one trending-feed request is in
\* flight at a time, the loading flag is true exactly while a request is in
\* flight and is reset to false after every request, and whenever no request is
\* in flight the displayed trending list and hashtags are those fetched for
\* the currently selected category.
C30_TrendingCard ==
    /\ [](Len(fetches) <= 1)
    /\ [](mounted => (loadingIndiaTrending <=> fetches # <<>>))
    /\ (fetches # <<>> ~> ~loadingIndiaTrending)
    /\ [](Idle => /\ shownFor = selectedIndiaCategory
                  /\ DisplayedHashtags \in {<<>>, HashtagsOfSelected})
====
